---- MODULE Spec2Model ----
(***************************************************************************)
(* RedBlink: the AI provider orchestration layer of the VS Code extension. *)
(* ProviderManager (aiProvider/index.ts) with its response cache, retry    *)
(* loop, timeout wrapper and fallback chain, on top of the provider        *)
(* adapters (gemini.ts, claude.ts, openai.ts), seen through isAvailable,   *)
(* sendRequest and their conversation history.                             *)
(*                                                                         *)
(* Every await of the source is a point where the model lets other actions *)
(* run; the code between two awaits is one action.  Time is in             *)
(* milliseconds and is kept relative: a response carries its age           *)
(* (Date.now() - timestamp) and an armed timer the time left until it      *)
(* fires; Tick moves the clock.  dispose() ends the manager's life and is  *)
(* outside the model.                                                      *)
(***************************************************************************)
EXTENDS Integers, Sequences, FiniteSets, TLC

VARIABLES
  config,          \* ProviderManager.config, set by the constructor
  activeProvider,  \* ProviderManager.activeProvider
  responseCache,   \* ProviderManager.responseCache: key -> response
  secretStore,     \* the credential store: provider -> has a stored key
  apiKey,          \* each adapter's in-memory apiKey (TRUE = non-null)
  history,         \* each adapter's conversationHistory: filePath -> messages
  calls,           \* the ProviderManager.sendRequest invocations
  orphans,         \* adapter calls abandoned by withTimeout, still running,
                   \* each with the invocation and the call number it has there
  envOps,          \* how many operations other than sendRequest were made
  cleared,         \* clearCache() was called since the last sendRequest ended
  stream,          \* the ProviderManager.sendRequestStream invocation
  switched,        \* the latest ProviderManager.switchProvider call
  adapter          \* one provider adapter, used directly

vars == <<config, activeProvider, responseCache, secretStore, apiKey,
          history, calls, orphans, envOps, cleared, stream, switched,
          adapter>>

-----------------------------------------------------------------------------
(* Bounds of the model *)

MaxCalls == 2
MaxRetriesCfg == 2
MaxEnvOps == 2
MaxAdapterCalls == 2
MaxExchanges == 6
MaxBackoffRetries == 4
MaxRead == 9

(* Program constants *)

CACHE_TTL == 5 * 60 * 1000
RETRY_DELAY == 1000
RequestTimeout == 30000
HistoryCap == 10

Providers == {"gemini", "claude", "openai"}

(* Strings that reach simpleHash are sequences of char codes. *)
Questions == {<<113>>, <<119>>}
ErrorTypes == {<<116>>}
ErrorMessages == {<<109>>}
FilePaths == {"a.ts", "b.ts"}
Bar == 124

AllRequests ==
  [question : Questions, errorType : ErrorTypes,
   errorMessage : ErrorMessages, filePath : FilePaths]

\* The requests the consumers send: two questions, each about its file.
Requests ==
  {r \in AllRequests : (r.question = <<113>>) = (r.filePath = "a.ts")}

AnswerText == "answer"

(* The error strings an adapter puts in a success:false response. *)
PermanentError == "Invalid API key"
TransientError == "temporarily unavailable"
AdapterErrors == {PermanentError, TransientError}
NotConfigured == "API key not configured"

CallIds == 1..MaxCalls

-----------------------------------------------------------------------------
(* Manager configuration *)

\* DEFAULT_PROVIDER_CONFIG.enabledProviders, the credential-based adapters
EnabledOrders ==
  { <<"gemini", "claude", "openai">> }

Configs ==
  [defaultProvider : {"gemini"},
   enableFallback  : BOOLEAN,
   enabledProviders : EnabledOrders,
   requestTimeout  : {RequestTimeout},
   maxRetries      : 1..MaxRetriesCfg]

-----------------------------------------------------------------------------
(* Pure helpers *)

Range(s) == {s[i] : i \in DOMAIN s}

Pow2(n) == 2 ^ n

\* simpleHash: hash = ((hash << 5) - hash) + char, truncated to 32 bits.
\* The strings of this model are short enough that no step leaves the
\* 32-bit range.  toString(36) is one-to-one, the key is kept as the number.
RECURSIVE HashFrom(_, _, _)
HashFrom(str, i, hash) ==
  IF i > Len(str) THEN hash
  ELSE HashFrom(str, i + 1, ((hash * 32) - hash) + str[i])

simpleHash(str) == HashFrom(str, 1, 0)

\* A key that tells the files apart.
generateCacheKeyPerFile(request) ==
  simpleHash(request.question \o <<Bar>> \o request.errorType \o <<Bar>>
             \o request.errorMessage)
    + (IF request.filePath = "a.ts" THEN 0 ELSE 1)

generateCacheKey(request) ==
  simpleHash(request.question \o <<Bar>> \o request.errorType \o <<Bar>>
             \o request.errorMessage)

\* The response an adapter builds on success and in its catch block.
\* timestamp: new Date() makes the age 0.
SuccessResponse(p) ==
  [provider |-> p, success |-> TRUE, text |-> AnswerText, error |-> "",
   age |-> 0]

FailureResponse(p, err) ==
  [provider |-> p, success |-> FALSE, text |-> "", error |-> err,
   age |-> 0]

NoResponse ==
  [provider |-> "none", success |-> FALSE, text |-> "", error |-> "",
   age |-> 0]

\* A cap that keeps the oldest messages.
TruncateOldest(h) ==
  IF Len(h) > HistoryCap THEN SubSeq(h, 1, HistoryCap)
  ELSE h

\* storeInHistory: push the user question and the answer, keep the last 10.
Truncate(h) ==
  IF Len(h) > HistoryCap THEN SubSeq(h, Len(h) - HistoryCap + 1, Len(h))
  ELSE h

storeInHistory(h, request, text) ==
  Truncate(h \o << [role |-> "user", content |-> request.question],
                   [role |-> "assistant", content |-> text] >>)

\* getFromCache without the age test
CacheFreshNoTtl(cache, key) == key \in DOMAIN cache

\* getFromCache that deletes whatever it looks up
CacheAfterLookupEvicts(cache, key) ==
  [k \in DOMAIN cache \ {key} |-> cache[k]]

\* getFromCache: the entry under key when present and not older than the TTL.
\* age = Date.now() - cached.timestamp.getTime()
CacheFresh(cache, key) ==
  /\ key \in DOMAIN cache
  /\ ~ (cache[key].age > CACHE_TTL)

\* The cache after getFromCache(key): an expired entry is deleted.
CacheAfterLookup(cache, key) ==
  IF key \in DOMAIN cache /\ cache[key].age > CACHE_TTL
  THEN [k \in DOMAIN cache \ {key} |-> cache[k]]
  ELSE cache

addToCache(cache, key, response) ==
  [k \in DOMAIN cache \cup {key} |-> IF k = key THEN response ELSE cache[k]]

\* A backoff that starts at twice the base delay.
BackoffDelayDoubled(attempt) == RETRY_DELAY * Pow2(attempt)

\* this.RETRY_DELAY * Math.pow(2, attempt - 1)
BackoffDelay(attempt) == RETRY_DELAY * Pow2(attempt - 1)

\* getAvailableProviders: the enabled providers whose isAvailable() is true,
\* in enabledProviders order.
AvailableProviders(store, enabled) ==
  SelectSeq(enabled, LAMBDA p : store[p])

\* availableProviders.filter(p => p !== excludeProvider)
FallbackProviders(store, enabled, exclude) ==
  SelectSeq(AvailableProviders(store, enabled), LAMBDA p : p # exclude)

IdleCall ==
  [pc |-> "idle", request |-> CHOOSE r \in Requests : TRUE, cacheKey |-> 0,
   attempt |-> 0, target |-> "none", noKey |-> FALSE, timer |-> 0,
   lastError |-> "", exclude |-> "none", fbList |-> <<>>, fbIdx |-> 0,
   trace |-> <<>>,
   sleeps |-> <<>>, kind |-> "none", response |-> NoResponse,
   error |-> "", netCalls |-> 0, via |-> "none", clearedBefore |-> FALSE,
   elapsed |-> 0, appends |-> 0]

\* The log keeps the whole record of the latest invocation, this much of
\* the one before it, and nothing of the older ones.
Archived(cr) ==
  [IdleCall EXCEPT !.pc = "done", !.request = cr.request,
                   !.cacheKey = cr.cacheKey, !.kind = cr.kind,
                   !.response = cr.response, !.error = cr.error,
                   !.netCalls = cr.netCalls, !.via = cr.via,
                   !.appends = cr.appends]

Forgotten == [IdleCall EXCEPT !.pc = "done"]

\* No sendRequestStream invocation yet.
IdleStream ==
  [pc |-> "idle", request |-> CHOOSE r \in Requests : TRUE,
   target |-> "none", timer |-> 0, kind |-> "none",
   response |-> NoResponse, error |-> "", adapterCalls |-> 0]

\* No switchProvider call yet.
NoSwitch == [n |-> 0, target |-> "none", before |-> "none", result |-> "none"]

-----------------------------------------------------------------------------
(* A provider adapter on its own *)

\* The four adapters; the Copilot adapter has no key but the host's
\* extension (isExtensionAvailable).
Adapters == Providers \cup {"copilot"}

\* The adapters that parse the backend's event stream themselves; the
\* Claude adapter iterates the SDK's events, the Copilot adapter the
\* language model's text chunks.
SseAdapters == {"gemini", "openai"}

\* What a backend answers to a buffered call: a payload with text, a
\* payload without text, an HTTP error status, a network exception.
BackendResults == {"text", "notext", "401", "503", "network"}

\* The message of the error the adapter's catch block receives.
BackendError(t, result) ==
  IF result = "notext" THEN "Could not parse API response"
  ELSE IF result = "401" /\ t \in {"claude", "openai"} THEN PermanentError
  ELSE IF result = "503" /\ t \in {"claude", "openai"} THEN TransientError
  ELSE IF result = "network" THEN "Failed to call API: fetch failed"
  ELSE "Failed to call API: API Error " \o result

\* The bytes of an event stream, as far as the parsers tell them apart:
\* the "data: " prefix of a line, the JSON after it, the line terminator.
DataPrefix == "data: "
Newline == "\n"

\* The payload of a line that is not a text event: malformed JSON for the
\* parsing adapters, an event of another type for the SDK.
NoTextEvent == "{"
DoneSentinel == "[DONE]"

\* One line of an event stream with its terminator.
EventLine(payload) == << DataPrefix, payload, Newline >>

\* The streams of the model.  The parsing adapters get bytes, which the
\* transport cuts into reads wherever it likes: two text events, events
\* without text, the sentinel, a malformed event, an empty line between
\* events, a last line without its terminator, an event after the
\* sentinel, a malformed event between two text events.  The SDK and the
\* language model hand over whole events.
Scripts(t) ==
  IF t \in SseAdapters
  THEN { EventLine("Hello, ") \o EventLine("world!"),
         EventLine(""),
         EventLine("") \o EventLine(DoneSentinel),
         EventLine(NoTextEvent) \o EventLine("world!"),
         EventLine("Hello, ") \o << Newline >> \o EventLine("world!"),
         EventLine("Hello, ") \o << DataPrefix, "world!" >>,
         EventLine("Hello, ") \o EventLine(DoneSentinel)
           \o EventLine("world!"),
         EventLine("Hello, ") \o EventLine(NoTextEvent)
           \o EventLine("world!") }
  ELSE { << "Hello, ", "world!" >>, << "" >> }
       \cup (IF t # "copilot"
             THEN { << "", DoneSentinel >>, << NoTextEvent, "world!" >> }
             ELSE {})

\* The token counts a backend reports with its answer, or none.
NoUsage == [reported |-> FALSE, inputTokens |-> 0, outputTokens |-> 0]
BackendUsage == [reported |-> TRUE, inputTokens |-> 7, outputTokens |-> 3]

\* What the backend of an adapter reports: the completions of Claude and
\* OpenAI always carry usage, the streams of OpenAI and the language
\* model never do, Gemini's answers and Claude's stream events may.
Usages(t, streamed) ==
  IF t = "copilot" \/ (t = "openai" /\ streamed) THEN {NoUsage}
  ELSE IF t \in {"claude", "openai"} /\ ~ streamed THEN {BackendUsage}
  ELSE {NoUsage, BackendUsage}

\* tokenUsage of a success:false response
ZeroUsage == [inputTokens |-> 0, outputTokens |-> 0, totalTokens |-> 0]

\* What an adapter call resolved with; error "" stands for an absent error.
NoReply ==
  [success |-> FALSE, text |-> "", error |-> "", stopReason |-> "",
   tokenUsage |-> ZeroUsage,
   streamed |-> FALSE, rejected |-> FALSE, n |-> 0]

\* An API key is a sequence of pieces, each a run of whitespace or a run
\* of other characters; null, undefined and the empty string are NoKey.
NoKey == <<>>
Blank == " "
KeyBody == "abcdefghijklmnopqrstuvwxyz0"
Keys ==
  { NoKey,
    << Blank >>,
    << "abc" >>,
    << "sk-", "ant-", "abc" >>,
    << KeyBody >>,
    << "sk-", KeyBody >>,
    << "sk-", "ant-", KeyBody >>,
    << Blank, KeyBody >>,
    << "sk-", KeyBody, Blank >>,
    << Blank, "sk-", "ant-", KeyBody, Blank >> }

\* The latest call of a credential method of the adapter.
NoCred == [op |-> "none", apiKey |-> NoKey, rejected |-> FALSE]

\* An adapter of type t after construction; ready stands for a loaded key
\* (for Copilot: isExtensionAvailable).
IdleAdapter(t, ready) ==
  [type |-> t, ready |-> ready, pc |-> "idle",
   request |-> CHOOSE r \in Requests : TRUE,
   hist |-> [f \in FilePaths |-> <<>>],
   log |-> [f \in FilePaths |-> <<>>],
   stream |-> <<>>, script |-> <<>>, buffer |-> <<>>, reads |-> 0,
   seen |-> <<>>, chunks |-> <<>>, fullText |-> "",
   cancelled |-> FALSE, afterCancel |-> 0, afterDone |-> 0,
   payload |-> <<>>, usage |-> NoUsage,
   key |-> NoKey, cred |-> NoCred,
   calls |-> 0, cause |-> "none", last |-> NoReply]

-----------------------------------------------------------------------------
(* State after construction *)

Init ==
  /\ config \in Configs
  /\ activeProvider = config.defaultProvider
  /\ responseCache = <<>>
  /\ secretStore \in [Providers -> BOOLEAN]
  /\ apiKey = [p \in Providers |-> FALSE]
  /\ history = [p \in Providers |-> [f \in FilePaths |-> <<>>]]
  /\ calls = [c \in CallIds |-> IdleCall]
  /\ orphans = {}
  /\ envOps = 0
  /\ cleared = FALSE
  /\ stream = IdleStream
  /\ switched = NoSwitch
  /\ adapter = IdleAdapter("openai", FALSE)

-----------------------------------------------------------------------------
(* How a sendRequest invocation ends or goes on *)

\* return response
Returned(cr, response, via) ==
  [cr EXCEPT !.pc = "done", !.kind = "response", !.response = response,
             !.via = via, !.timer = 0, !.noKey = FALSE, !.fbIdx = 0]

\* A failure path that ends like a success path: a success:false response
\* is handed to the caller.
ThrownAsResponse(cr, err) ==
  [cr EXCEPT !.pc = "done", !.kind = "response",
             !.response = FailureResponse(cr.target, err), !.via = "retry",
             !.timer = 0, !.noKey = FALSE, !.fbIdx = 0]

\* throw error (the outer catch logs and rethrows)
Thrown(cr, err) ==
  [cr EXCEPT !.pc = "done", !.kind = "throw", !.error = err,
             !.timer = 0, !.noKey = FALSE, !.fbIdx = 0]

\* A catch block that gives up on the provider at the first failure.
AfterFailureNoRetry(cr, err, outcome) ==
  LET cr1 == [cr EXCEPT !.lastError = err,
                        !.trace = Append(@, [provider |-> cr.target,
                                             stage |-> "retry",
                                             outcome |-> outcome])]
  IN IF config.enableFallback
     THEN [cr1 EXCEPT !.pc = "fallback", !.exclude = activeProvider]
     ELSE [cr1 EXCEPT !.pc = "done", !.kind = "throw", !.error = err,
                      !.timer = 0, !.noKey = FALSE, !.fbIdx = 0]

\* The catch block of the retry loop and what follows the loop: sleep and
\* retry while attempts remain, then the fallback chain or the throw.
AfterFailure(cr, err, outcome) ==
  LET cr1 == [cr EXCEPT !.lastError = err,
                        !.trace = Append(@, [provider |-> cr.target,
                                             stage |-> "retry",
                                             outcome |-> outcome])]
  IN IF cr.attempt < config.maxRetries
     THEN [cr1 EXCEPT !.pc = "sleep",
                      !.timer = BackoffDelay(cr.attempt),
                      !.sleeps = Append(@, BackoffDelay(cr.attempt))]
     ELSE IF config.enableFallback
          THEN [cr1 EXCEPT !.pc = "fallback", !.exclude = activeProvider]
          ELSE Thrown(cr1, err)

\* The type constant of the adapter that getProviderInstance creates for
\* a provider type: vscode-lm gets a CopilotProvider.
AdapterType(providerType) ==
  IF providerType = "vscode-lm" THEN "copilot" ELSE providerType

\* The response the sendRequest of the adapter kept under provider type p
\* resolves with for an outcome; its provider field is the adapter's type.
AdapterResponse(p, outcome) ==
  IF outcome = "ok" THEN SuccessResponse(AdapterType(p))
  ELSE FailureResponse(AdapterType(p), outcome)

\* The adapter's history after its sendRequest ended with the outcome.
HistoryAfter(h, p, request, outcome) ==
  IF outcome = "ok"
  THEN [h EXCEPT ![p][request.filePath] = storeInHistory(@, request, AnswerText)]
  ELSE h

\* The outcomes an adapter call can resolve with: without a key in memory it
\* fails before any network call.
Outcomes(cr) ==
  IF cr.noKey THEN {NotConfigured} ELSE {"ok"} \cup AdapterErrors

-----------------------------------------------------------------------------
(* ProviderManager.sendRequest *)

\* An entry that takes a cached response only when the active provider
\* made it.
BegunForActive(c, r, log) ==
  /\ LET key == generateCacheKey(r)
         cr == [calls[c] EXCEPT !.request = r, !.cacheKey = key,
                                !.clearedBefore = cleared]
     IN IF /\ CacheFresh(responseCache, key)
           /\ responseCache[key].provider = activeProvider
        THEN /\ calls' = [log EXCEPT ![c] =
                            Returned(cr, responseCache[key], "cache")]
             /\ responseCache' = CacheAfterLookup(responseCache, key)
        ELSE /\ calls' = [log EXCEPT ![c] = [cr EXCEPT !.pc = "attempt",
                                                        !.attempt = 1]]
             /\ responseCache' = CacheAfterLookup(responseCache, key)
  /\ cleared' = FALSE
  /\ UNCHANGED <<config, activeProvider, secretStore, apiKey, history,
                 orphans,
                 envOps,
                 stream, switched, adapter>>

\* Entry: cache lookup; a fresh entry is returned at once.  log is what
\* the model keeps of the other invocations.
Begun(c, r, log) ==
  /\ LET key == generateCacheKey(r)
         cr == [calls[c] EXCEPT !.request = r, !.cacheKey = key,
                                !.clearedBefore = cleared]
     IN IF CacheFresh(responseCache, key)
        THEN /\ calls' = [log EXCEPT ![c] =
                            Returned(cr, responseCache[key], "cache")]
             /\ responseCache' = CacheAfterLookup(responseCache, key)
        ELSE /\ calls' = [log EXCEPT ![c] = [cr EXCEPT !.pc = "attempt",
                                                        !.attempt = 1]]
             /\ responseCache' = CacheAfterLookup(responseCache, key)
  /\ cleared' = FALSE
  /\ UNCHANGED <<config, activeProvider, secretStore, apiKey, history,
                 orphans,
                 envOps,
                 stream, switched, adapter>>

\* sendRequest is entered by a consumer that awaited the invocation before.
Start(c, r) ==
  /\ calls[c].pc = "idle"
  /\ \A d \in CallIds : d < c => calls[d].pc = "done"
  /\ Begun(c, r, [d \in CallIds |->
                     IF d = c - 1 THEN Archived(calls[d])
                     ELSE IF d < c THEN Forgotten ELSE calls[d]])

\* An entry that joins the invocation already under way for the same key
\* instead of looking for itself.
StartSingleFlight(c, r) ==
  /\ calls[c].pc = "idle"
  /\ \A d \in CallIds : d < c => calls[d].pc # "idle"
  /\ \A d \in CallIds :
        calls[d].pc \notin {"idle", "done"}
          => calls[d].cacheKey # generateCacheKey(r)
  /\ Begun(c, r, calls)

\* sendRequest is entered while other invocations may be suspended at an
\* await.
StartOverlapping(c, r) ==
  /\ calls[c].pc = "idle"
  /\ \A d \in CallIds : d < c => calls[d].pc # "idle"
  /\ Begun(c, r, calls)

\* One iteration of the retry loop up to the adapter call: the active
\* provider's isAvailable() reloads its key; unavailable throws.
Attempt(c) ==
  /\ calls[c].pc = "attempt"
  /\ LET p == activeProvider
         cr == [calls[c] EXCEPT !.target = p]
     IN /\ apiKey' = [apiKey EXCEPT ![p] = secretStore[p]]
        /\ IF secretStore[p]
           THEN calls' = [calls EXCEPT ![c] =
                    [cr EXCEPT !.pc = "wait", !.noKey = FALSE,
                               !.netCalls = @ + 1,
                               !.timer = config.requestTimeout]]
           ELSE calls' = [calls EXCEPT ![c] =
                    AfterFailure(cr, "Provider not available", "unavailable")]
  /\ UNCHANGED <<config, activeProvider, responseCache, secretStore, history, orphans,
                 envOps, cleared,
                 stream, switched, adapter>>

\* The adapter's promise settles before the timer: the response is cached
\* and returned.
AdapterResponds(c, outcome) ==
  /\ calls[c].pc = "wait"
  /\ outcome \in Outcomes(calls[c])
  /\ LET cr == calls[c]
         response == AdapterResponse(cr.target, outcome)
         cr1 == [cr EXCEPT !.trace = Append(@, [provider |-> cr.target,
                                                stage |-> "retry",
                                                outcome |-> outcome]),
                           !.appends = IF outcome = "ok" THEN @ + 1 ELSE @]
     IN /\ history' = HistoryAfter(history, cr.target, cr.request, outcome)
        /\ responseCache' = addToCache(responseCache, cr.cacheKey, response)
        /\ calls' = [calls EXCEPT ![c] = Returned(cr1, response, "retry")]
  /\ UNCHANGED <<config, activeProvider, secretStore, apiKey, orphans,
                 envOps, cleared,
                 stream, switched, adapter>>

\* A timer that may fire before its time.
TimeoutEarly(c) ==
  /\ calls[c].pc = "wait"
  /\ orphans' = orphans \cup
       {[provider |-> calls[c].target, request |-> calls[c].request,
         owner |-> c, seq |-> calls[c].netCalls]}
  /\ calls' = [calls EXCEPT ![c] =
                 AfterFailure(calls[c], "Request timeout", "timeout")]
  /\ UNCHANGED <<config, activeProvider, responseCache, secretStore, apiKey,
                 history,
                 envOps, cleared,
                 stream, switched, adapter>>

\* withTimeout's timer fires first: the attempt fails, the adapter call
\* goes on in the background.
Timeout(c) ==
  /\ calls[c].pc = "wait"
  /\ calls[c].timer = 0
  /\ orphans' = orphans \cup
       {[provider |-> calls[c].target, request |-> calls[c].request,
         owner |-> c, seq |-> calls[c].netCalls]}
  /\ calls' = [calls EXCEPT ![c] =
                 AfterFailure(calls[c], "Request timeout", "timeout")]
  /\ UNCHANGED <<config, activeProvider, responseCache, secretStore, apiKey,
                 history,
                 envOps, cleared,
                 stream, switched, adapter>>

\* A delay whose timer callback never resumes the loop.
WakeLost(c) ==
  /\ calls[c].pc = "sleep"
  /\ calls[c].timer = 0
  /\ UNCHANGED vars

\* The backoff delay is over: next iteration.
Wake(c) ==
  /\ calls[c].pc = "sleep"
  /\ calls[c].timer = 0
  /\ calls' = [calls EXCEPT ![c] = [@ EXCEPT !.pc = "attempt",
                                             !.attempt = @ + 1]]
  /\ UNCHANGED <<config, activeProvider, responseCache, secretStore, apiKey,
                 history, orphans,
                 envOps, cleared,
                 stream, switched, adapter>>

-----------------------------------------------------------------------------
(* ProviderManager.sendRequestWithFallback *)

\* Starts the adapter call of candidate number i of the list.
TryCandidate(cr, list, i, keys) ==
  [cr EXCEPT !.pc = "fbwait", !.fbList = list, !.fbIdx = i,
             !.target = list[i], !.noKey = ~ keys[list[i]],
             !.netCalls = IF keys[list[i]] THEN @ + 1 ELSE @,
             !.timer = config.requestTimeout]

\* A fallback chain that makes its first candidate the active provider
\* before the candidate has answered.
FallbackBeginAdopts(c) ==
  /\ calls[c].pc = "fallback"
  /\ LET keys == [p \in Providers |->
                    IF p \in Range(config.enabledProviders)
                    THEN secretStore[p] ELSE apiKey[p]]
         list == FallbackProviders(secretStore, config.enabledProviders,
                                   calls[c].exclude)
     IN /\ apiKey' = keys
        /\ IF list = <<>>
           THEN /\ calls' = [calls EXCEPT ![c] =
                       Thrown(@, "No fallback providers available")]
                /\ activeProvider' = activeProvider
           ELSE /\ calls' = [calls EXCEPT ![c] = TryCandidate(@, list, 1, keys)]
                /\ activeProvider' = list[1]
  /\ UNCHANGED <<config, responseCache, secretStore, history, orphans,
                 envOps, cleared,
                 stream, switched, adapter>>

\* getAvailableProviders, the filter, and the first candidate's call.
FallbackBegin(c) ==
  /\ calls[c].pc = "fallback"
  /\ LET keys == [p \in Providers |->
                    IF p \in Range(config.enabledProviders)
                    THEN secretStore[p] ELSE apiKey[p]]
         list == FallbackProviders(secretStore, config.enabledProviders,
                                   calls[c].exclude)
     IN /\ apiKey' = keys
        /\ IF list = <<>>
           THEN calls' = [calls EXCEPT ![c] =
                    Thrown(@, "No fallback providers available")]
           ELSE calls' = [calls EXCEPT ![c] = TryCandidate(@, list, 1, keys)]
  /\ UNCHANGED <<config, activeProvider, responseCache, secretStore, history, orphans,
                 envOps, cleared,
                 stream, switched, adapter>>

\* A candidate's promise settles before the timer: it becomes the active
\* provider and its response is returned.
FallbackResponds(c, outcome) ==
  /\ calls[c].pc = "fbwait"
  /\ outcome \in Outcomes(calls[c])
  /\ LET cr == calls[c]
         response == AdapterResponse(cr.target, outcome)
         cr1 == [cr EXCEPT !.trace = Append(@, [provider |-> cr.target,
                                                stage |-> "fallback",
                                                outcome |-> outcome]),
                           !.appends = IF outcome = "ok" THEN @ + 1 ELSE @]
     IN /\ history' = HistoryAfter(history, cr.target, cr.request, outcome)
        /\ activeProvider' = cr.target
        /\ calls' = [calls EXCEPT ![c] = Returned(cr1, response, "fallback")]
  /\ UNCHANGED <<config, responseCache, secretStore, apiKey, orphans,
                 envOps, cleared,
                 stream, switched, adapter>>

\* A fallback chain that rethrows the last candidate's own failure.
FallbackTimeoutRethrows(c) ==
  /\ calls[c].pc = "fbwait"
  /\ ~ calls[c].noKey
  /\ calls[c].timer = 0
  /\ LET cr == calls[c]
         cr1 == [cr EXCEPT !.trace = Append(@, [provider |-> cr.target,
                                                stage |-> "fallback",
                                                outcome |-> "timeout"])]
     IN /\ orphans' = orphans \cup
             {[provider |-> cr.target, request |-> cr.request,
               owner |-> c, seq |-> cr.netCalls]}
        /\ IF cr.fbIdx < Len(cr.fbList)
           THEN calls' = [calls EXCEPT ![c] =
                    TryCandidate(cr1, cr.fbList, cr.fbIdx + 1, apiKey)]
           ELSE calls' = [calls EXCEPT ![c] =
                    Thrown(cr1, "Request timeout")]
  /\ UNCHANGED <<config, activeProvider, responseCache, secretStore, apiKey,
                 history,
                 envOps, cleared,
                 stream, switched, adapter>>

\* A candidate's timer fires first: next candidate, or the final throw.
FallbackTimeout(c) ==
  /\ calls[c].pc = "fbwait"
  /\ ~ calls[c].noKey
  /\ calls[c].timer = 0
  /\ LET cr == calls[c]
         cr1 == [cr EXCEPT !.trace = Append(@, [provider |-> cr.target,
                                                stage |-> "fallback",
                                                outcome |-> "timeout"])]
     IN /\ orphans' = orphans \cup
             {[provider |-> cr.target, request |-> cr.request,
               owner |-> c, seq |-> cr.netCalls]}
        /\ IF cr.fbIdx < Len(cr.fbList)
           THEN calls' = [calls EXCEPT ![c] =
                    TryCandidate(cr1, cr.fbList, cr.fbIdx + 1, apiKey)]
           ELSE calls' = [calls EXCEPT ![c] =
                    Thrown(cr1, "All fallback providers failed")]
  /\ UNCHANGED <<config, activeProvider, responseCache, secretStore, apiKey,
                 history,
                 envOps, cleared,
                 stream, switched, adapter>>

-----------------------------------------------------------------------------
(* The other public operations and the environment *)

\* A sendRequest invocation is between its entry and its end.
InFlight == \E c \in CallIds : calls[c].pc \notin {"idle", "done"}

\* A switch that commits before it looks at the target.
SwitchProviderUnchecked(p) ==
  /\ envOps < MaxEnvOps
  /\ envOps' = envOps + 1
  /\ apiKey' = [apiKey EXCEPT ![p] = secretStore[p]]
  /\ activeProvider' = p
  /\ switched' = [n |-> switched.n + 1, target |-> p,
                  before |-> activeProvider,
                  result |-> IF secretStore[p] THEN "resolved"
                             ELSE "rejected"]
  /\ UNCHANGED <<config, responseCache, secretStore, history, calls,
                 orphans, cleared, stream, adapter>>

\* switchProvider: commits only when the target's isAvailable() is true.
SwitchProvider(p) ==
  /\ envOps < MaxEnvOps
  /\ envOps' = envOps + 1
  /\ apiKey' = [apiKey EXCEPT ![p] = secretStore[p]]
  /\ activeProvider' = IF secretStore[p] THEN p ELSE activeProvider
  /\ switched' = [n |-> switched.n + 1, target |-> p,
                  before |-> activeProvider,
                  result |-> IF secretStore[p] THEN "resolved"
                             ELSE "rejected"]
  /\ UNCHANGED <<config, responseCache, secretStore, history, calls,
                 orphans, cleared, stream, adapter>>

\* clearCache(); the flag notes a call made while no sendRequest is running.
ClearCache ==
  /\ responseCache' = <<>>
  /\ cleared' = ~ InFlight
  /\ UNCHANGED <<config, activeProvider, secretStore, apiKey, history,
                 calls, orphans, envOps,
                 stream, switched, adapter>>

\* adapter.setCredentials with a well-formed key
SetCredentials(p) ==
  /\ envOps < MaxEnvOps
  /\ envOps' = envOps + 1
  /\ secretStore' = [secretStore EXCEPT ![p] = TRUE]
  /\ apiKey' = [apiKey EXCEPT ![p] = TRUE]
  /\ UNCHANGED <<config, activeProvider, responseCache, history, calls,
                 orphans, cleared,
                 stream, switched, adapter>>

\* adapter.clearCredentials
ClearCredentials(p) ==
  /\ envOps < MaxEnvOps
  /\ envOps' = envOps + 1
  /\ secretStore' = [secretStore EXCEPT ![p] = FALSE]
  /\ apiKey' = [apiKey EXCEPT ![p] = FALSE]
  /\ UNCHANGED <<config, activeProvider, responseCache, history, calls,
                 orphans, cleared,
                 stream, switched, adapter>>

\* An adapter call abandoned by a timeout finishes in the background.
\* Only a successful end has an effect, on the adapter's history; the
\* invocation that started the call is charged with the append.
OrphanCompletes(o) ==
  /\ o \in orphans
  /\ history' = HistoryAfter(history, o.provider, o.request, "ok")
  /\ orphans' = orphans \ {o}
  /\ calls' = IF o.owner \in CallIds
              THEN [calls EXCEPT ![o.owner].appends = @ + 1]
              ELSE calls
  /\ UNCHANGED <<config, activeProvider, responseCache, secretStore, apiKey,
                 envOps, cleared,
                 stream, switched, adapter>>

-----------------------------------------------------------------------------
(* ProviderManager.sendRequestStream *)

\* The outcomes of an adapter's sendRequestStream: the aggregated text, or
\* a success:false response with the backend's or the stream's error.
StreamOutcomes == {"ok", "Streaming failed"} \cup AdapterErrors

\* A streaming entry that looks into the response cache first.
StreamStartCached(r) ==
  /\ stream.pc = "idle"
  /\ LET p == activeProvider
         key == generateCacheKey(r)
         st == [stream EXCEPT !.request = r, !.target = p]
     IN IF CacheFresh(responseCache, key)
        THEN /\ stream' = [st EXCEPT !.pc = "done", !.kind = "response",
                                     !.response = responseCache[key]]
             /\ apiKey' = apiKey
        ELSE /\ apiKey' = [apiKey EXCEPT ![p] = secretStore[p]]
             /\ IF secretStore[p]
                THEN stream' = [st EXCEPT !.pc = "wait",
                                          !.adapterCalls = @ + 1,
                                          !.timer = config.requestTimeout]
                ELSE stream' = [st EXCEPT !.pc = "done", !.kind = "throw",
                                          !.error = "Provider not available"]
  /\ UNCHANGED <<config, activeProvider, responseCache, secretStore, history,
                 calls, orphans, envOps, cleared, switched, adapter>>

\* Entry, getProviderInstance and isAvailable of the active provider, then
\* the adapter's sendRequestStream under withTimeout; unavailable throws.
StreamStart(r) ==
  /\ stream.pc = "idle"
  /\ LET p == activeProvider
         st == [stream EXCEPT !.request = r, !.target = p]
     IN /\ apiKey' = [apiKey EXCEPT ![p] = secretStore[p]]
        /\ IF secretStore[p]
           THEN stream' = [st EXCEPT !.pc = "wait",
                                     !.adapterCalls = @ + 1,
                                     !.timer = config.requestTimeout]
           ELSE stream' = [st EXCEPT !.pc = "done", !.kind = "throw",
                                     !.error = "Provider not available"]
  /\ UNCHANGED <<config, activeProvider, responseCache, secretStore, history,
                 calls, orphans, envOps, cleared, switched, adapter>>

\* The adapter's promise settles before the timer: its response is
\* returned as it is.
StreamResponds(outcome) ==
  /\ stream.pc = "wait"
  /\ outcome \in StreamOutcomes
  /\ history' = HistoryAfter(history, stream.target, stream.request, outcome)
  /\ stream' = [stream EXCEPT !.pc = "done", !.kind = "response",
                              !.response =
                                AdapterResponse(stream.target, outcome),
                              !.timer = 0]
  /\ UNCHANGED <<config, activeProvider, responseCache, secretStore, apiKey,
                 calls, orphans, envOps, cleared, switched, adapter>>

\* The timer fires first: the invocation throws, the adapter's stream goes
\* on in the background.
StreamTimeout ==
  /\ stream.pc = "wait"
  /\ stream.timer = 0
  /\ orphans' = orphans \cup
       {[provider |-> stream.target, request |-> stream.request,
         owner |-> 0, seq |-> stream.adapterCalls]}
  /\ stream' = [stream EXCEPT !.pc = "done", !.kind = "throw",
                              !.error = "Request timeout"]
  /\ UNCHANGED <<config, activeProvider, responseCache, secretStore, apiKey,
                 history, calls, envOps, cleared, switched, adapter>>

-----------------------------------------------------------------------------
(* The adapters' sendRequest and sendRequestStream, called directly *)

\* DEFAULT_PROMPT_TEMPLATE.system
SystemPrompt == "system prompt"

\* buildPrompt: the user template with the request's fields put in.
buildPrompt(request) ==
  <<request.errorType, request.filePath, request.errorMessage,
    request.question>>

\* buildMessages: the Claude adapter sends the system prompt apart from
\* the messages, the OpenAI adapter as a system message and the Copilot
\* adapter as a first user message; then the history, then the prompt.
buildMessages(t, currentPrompt, h) ==
  (IF t = "openai" THEN << [role |-> "system", content |-> SystemPrompt] >>
   ELSE IF t = "copilot"
        THEN << [role |-> "user", content |-> SystemPrompt] >>
        ELSE <<>>)
  \o h \o << [role |-> "user", content |-> currentPrompt] >>

\* The messages of the backend call.  callGeminiAPI and streamGeminiAPI
\* take the prompt only and make it the one entry of contents.
Payload(t, request, hist) ==
  IF t = "gemini"
  THEN << [role |-> "user", content |-> buildPrompt(request)] >>
  ELSE buildMessages(t, buildPrompt(request), hist[request.filePath])

\* The characters of DEFAULT_PROMPT_TEMPLATE.user outside its placeholders
\* and of DEFAULT_PROMPT_TEMPLATE.system.
TemplateLength == 88
SystemPromptLength == 297

\* prompt.length; the requests of the model have an empty codeContext.
PromptLength(request) ==
  TemplateLength + Len(request.errorType) + Len(request.filePath)
    + Len(request.errorMessage) + Len(request.question)

\* messages.reduce((sum, m) => sum + m.content.length, 0) over a history
RECURSIVE ContentLength(_)
ContentLength(h) ==
  IF h = <<>> THEN 0 ELSE Len(Head(h).content) + ContentLength(Tail(h))

\* Math.ceil(n / 4)
Estimate(n) == (n + 3) \div 4

\* estimateTokenUsage
estimateTokenUsage(promptLength, responseLength) ==
  [inputTokens |-> Estimate(promptLength),
   outputTokens |-> Estimate(responseLength),
   totalTokens |-> Estimate(promptLength) + Estimate(responseLength)]

\* tokenUsage of a success response.  Buffered Claude and OpenAI copy
\* response.usage; Claude's stream takes the output count of a
\* message_delta event and leaves the input count at 0; OpenAI's stream
\* estimates from all the messages it sent; Gemini and Copilot estimate
\* from the prompt and the text.
TokenUsage(a, text, streamed) ==
  IF a.type \in {"claude", "openai"} /\ ~ streamed
  THEN [inputTokens |-> a.usage.inputTokens,
        outputTokens |-> a.usage.outputTokens,
        totalTokens |-> a.usage.inputTokens + a.usage.outputTokens]
  ELSE IF a.type = "claude"
  THEN [inputTokens |-> 0,
        outputTokens |-> IF a.usage.reported THEN a.usage.outputTokens
                         ELSE 0,
        totalTokens |-> IF a.usage.reported THEN a.usage.outputTokens
                        ELSE 0]
  ELSE IF a.type = "openai"
  THEN estimateTokenUsage(
         SystemPromptLength + ContentLength(a.hist[a.request.filePath])
           + PromptLength(a.request),
         Len(text))
  ELSE estimateTokenUsage(PromptLength(a.request), Len(text))

\* The response object a call resolves with.  Only the buffered success of
\* the three HTTP adapters carries the backend's stopReason.
Reply(a, success, text, error, streamed) ==
  [success |-> success, text |-> text, error |-> error,
   stopReason |-> IF success /\ ~ streamed /\ a.type # "copilot"
                  THEN "stop" ELSE "",
   tokenUsage |-> IF success THEN TokenUsage(a, text, streamed)
                  ELSE ZeroUsage,
   streamed |-> streamed, rejected |-> FALSE, n |-> a.last.n + 1]

\* A catch block that records the failed exchange in the history.
CaughtStores(a, error, streamed) ==
  [a EXCEPT !.pc = "idle", !.script = <<>>, !.buffer = <<>>,
            !.payload = <<>>,
            !.hist[a.request.filePath] = storeInHistory(@, a.request, ""),
            !.last = Reply(a, FALSE, "", error, streamed)]

\* The catch block of sendRequest and of sendRequestStream.
Caught(a, error, streamed) ==
  [a EXCEPT !.pc = "idle", !.script = <<>>, !.buffer = <<>>,
            !.payload = <<>>,
            !.last = Reply(a, FALSE, "", error, streamed)]

\* The success path: storeInHistory, then the response.
Stored(a, text, streamed) ==
  LET f == a.request.filePath IN
  [a EXCEPT !.pc = "idle", !.script = <<>>, !.buffer = <<>>,
            !.payload = <<>>,
            !.hist[f] = storeInHistory(@, a.request, text),
            !.log[f] = Append(@, <<a.request.question, text>>),
            !.last = Reply(a, TRUE, text, "", streamed)]

\* sendRequest up to the API call; without a key it throws into its catch.
AdapterSend(r) ==
  /\ adapter.pc = "idle"
  /\ adapter.calls < MaxAdapterCalls
  /\ LET a == [adapter EXCEPT !.request = r, !.calls = @ + 1,
                              !.cancelled = FALSE, !.afterCancel = 0,
                              !.chunks = <<>>, !.seen = <<>>,
                              !.fullText = "", !.usage = NoUsage,
                              !.cause = IF adapter.ready THEN "none"
                                        ELSE "nokey"]
     IN adapter' = IF adapter.ready
                   THEN [a EXCEPT !.pc = "buffered",
                                  !.payload = Payload(a.type, r, a.hist)]
                   ELSE Caught(a, NotConfigured, FALSE)
  /\ UNCHANGED <<config, activeProvider, responseCache, secretStore, apiKey,
                 history, calls, orphans, envOps, cleared, stream, switched>>

\* The API call ends: parseResponse, storeInHistory and the response, or
\* the catch block.  The Copilot adapter takes the text as it is.
AdapterBackendReplies(result, usage) ==
  /\ adapter.pc = "buffered"
  /\ usage \in IF result = "text" THEN Usages(adapter.type, FALSE)
               ELSE {NoUsage}
  /\ LET a == [adapter EXCEPT !.cause = result, !.usage = usage]
     IN adapter' =
          IF result = "text" THEN Stored(a, AnswerText, FALSE)
          ELSE IF result = "notext" /\ a.type = "copilot"
               THEN Stored(a, "", FALSE)
               ELSE Caught(a, BackendError(a.type, result), FALSE)
  /\ UNCHANGED <<config, activeProvider, responseCache, secretStore, apiKey,
                 history, calls, orphans, envOps, cleared, stream, switched>>

\* A parser that hands over whatever follows the prefix, parsed or not.
CarriesTextUnparsed(t, payload) ==
  /\ payload # DoneSentinel
  /\ t \in SseAdapters => payload # ""

\* A line's payload that carries text for the adapter: the parsing
\* adapters skip lines they cannot parse, the sentinel and empty text;
\* the SDK and the language model hand over text events only.
CarriesText(t, payload) ==
  /\ payload \notin {NoTextEvent, DoneSentinel}
  /\ t \in SseAdapters => payload # ""

\* A handler that calls onChunk but forgets to aggregate the text.
HandledNotAggregated(a, payload) ==
  LET a1 == [a EXCEPT !.seen = Append(@, payload)]
  IN IF CarriesText(a.type, payload)
     THEN [a1 EXCEPT !.fullText = payload,
                     !.chunks = Append(@, payload),
                     !.afterCancel = IF a.cancelled THEN @ + 1 ELSE @,
                     !.afterDone = IF DoneSentinel \in Range(a.seen)
                                   THEN @ + 1 ELSE @]
     ELSE a1

\* A complete line (or event) is handled: fullText += text; onChunk(text).
Handled(a, payload) ==
  LET a1 == [a EXCEPT !.seen = Append(@, payload)]
  IN IF CarriesText(a.type, payload)
     THEN [a1 EXCEPT !.fullText = @ \o payload,
                     !.chunks = Append(@, payload),
                     !.afterCancel = IF a.cancelled THEN @ + 1 ELSE @,
                     !.afterDone = IF DoneSentinel \in Range(a.seen)
                                   THEN @ + 1 ELSE @]
     ELSE a1

\* line.startsWith('data: ') and line.substring(6): what a complete line
\* gives the JSON parser; a line of another shape carries no event.
PayloadOf(line) ==
  IF Len(line) = 2 /\ line[1] = DataPrefix THEN line[2] ELSE NoTextEvent

\* The index of the first line terminator in buf.
FirstNewline(buf) ==
  CHOOSE k \in DOMAIN buf :
    /\ buf[k] = Newline
    /\ \A j \in 1..(k - 1) : buf[j] # Newline

\* A parser that does not wait for the terminator: what is left after the
\* last complete line is parsed as a line too.
RECURSIVE ConsumeEager(_, _)
ConsumeEager(a, buf) ==
  IF Newline \in Range(buf)
  THEN ConsumeEager(
         Handled(a, PayloadOf(SubSeq(buf, 1, FirstNewline(buf) - 1))),
         SubSeq(buf, FirstNewline(buf) + 1, Len(buf)))
  ELSE IF buf = <<>> THEN [a EXCEPT !.buffer = <<>>]
       ELSE [Handled(a, PayloadOf(buf)) EXCEPT !.buffer = <<>>]

\* buffer.split('\n'): the complete lines are handled in order, the last,
\* incomplete one is kept for the next read.
RECURSIVE Consume(_, _)
Consume(a, buf) ==
  IF Newline \in Range(buf)
  THEN Consume(
         Handled(a, PayloadOf(SubSeq(buf, 1, FirstNewline(buf) - 1))),
         SubSeq(buf, FirstNewline(buf) + 1, Len(buf)))
  ELSE [a EXCEPT !.buffer = buf]

\* sendRequestStream up to the streaming API call.
AdapterStream(r, script) ==
  /\ adapter.pc = "idle"
  /\ adapter.calls < MaxAdapterCalls
  /\ script \in Scripts(adapter.type)
  /\ LET a == [adapter EXCEPT !.request = r, !.calls = @ + 1,
                              !.cancelled = FALSE, !.afterCancel = 0,
                              !.chunks = <<>>, !.seen = <<>>,
                              !.fullText = "", !.buffer = <<>>,
                              !.reads = 0, !.afterDone = 0,
                              !.usage = NoUsage,
                              !.cause = IF adapter.ready THEN "stream"
                                        ELSE "nokey"]
     IN adapter' = IF adapter.ready
                   THEN [a EXCEPT !.pc = "streaming", !.script = script,
                                  !.stream = script,
                                  !.payload = Payload(a.type, r, a.hist)]
                   ELSE Caught(a, NotConfigured, TRUE)
  /\ UNCHANGED <<config, activeProvider, responseCache, secretStore, apiKey,
                 history, calls, orphans, envOps, cleared, stream, switched>>

\* One read.  A parsing adapter gets the next n bytes, appends them to
\* its buffer and handles the complete lines; the SDK's and the language
\* model's iterators yield one event.
AdapterRead(n) ==
  /\ adapter.pc = "streaming"
  /\ n \in 1..Len(adapter.script)
  /\ LET a == [adapter EXCEPT !.script = SubSeq(@, n + 1, Len(@)),
                              !.reads = @ + 1]
     IN IF adapter.type \in SseAdapters
        THEN adapter' = Consume(a, adapter.buffer
                                     \o SubSeq(adapter.script, 1, n))
        ELSE /\ n = 1
             /\ adapter' = Handled(a, Head(adapter.script))
  /\ UNCHANGED <<config, activeProvider, responseCache, secretStore, apiKey,
                 history, calls, orphans, envOps, cleared, stream, switched>>

\* The stream is done: what the buffer still holds is dropped, the text is
\* stored in the history and returned.
AdapterStreamEnds(usage) ==
  /\ adapter.pc = "streaming"
  /\ adapter.script = <<>>
  /\ usage \in Usages(adapter.type, TRUE)
  /\ adapter' = Stored([adapter EXCEPT !.usage = usage],
                       adapter.fullText, TRUE)
  /\ UNCHANGED <<config, activeProvider, responseCache, secretStore, apiKey,
                 history, calls, orphans, envOps, cleared, stream, switched>>

\* The backend answers with an error status or the connection breaks.
AdapterStreamFails ==
  /\ adapter.pc = "streaming"
  /\ adapter' = Caught([adapter EXCEPT !.cause = "network"],
                       "Streaming failed: API Error", TRUE)
  /\ UNCHANGED <<config, activeProvider, responseCache, secretStore, apiKey,
                 history, calls, orphans, envOps, cleared, stream, switched>>

\* The consumer signals that it wants the stream cancelled.  The adapters
\* take no token and so never see it.
ConsumerCancels ==
  /\ adapter.pc = "streaming"
  /\ ~ adapter.cancelled
  /\ adapter' = [adapter EXCEPT !.cancelled = TRUE]
  /\ UNCHANGED <<config, activeProvider, responseCache, secretStore, apiKey,
                 history, calls, orphans, envOps, cleared, stream, switched>>

\* apiKey.trim()
RECURSIVE TrimStart(_)
TrimStart(k) ==
  IF k # <<>> /\ Head(k) = Blank THEN TrimStart(Tail(k)) ELSE k

RECURSIVE TrimEnd(_)
TrimEnd(k) ==
  IF k # <<>> /\ k[Len(k)] = Blank THEN TrimEnd(SubSeq(k, 1, Len(k) - 1))
  ELSE k

trim(k) == TrimEnd(TrimStart(k))

\* key.length
RECURSIVE KeyLength(_)
KeyLength(k) == IF k = <<>> THEN 0 ELSE Len(Head(k)) + KeyLength(Tail(k))

\* key.startsWith(prefix)
StartsWith(k, prefix) ==
  Len(k) >= Len(prefix) /\ SubSeq(k, 1, Len(prefix)) = prefix

MinKeyLength == 30
MinGeminiKeyLength == 10

\* validateApiKeyFormat(provider, apiKey).valid
validateApiKeyFormat(provider, k) ==
  LET key == trim(k)
  IN /\ key # <<>>
     /\ provider = "claude" =>
          StartsWith(key, << "sk-", "ant-" >>)
            /\ KeyLength(key) >= MinKeyLength
     /\ provider = "openai" =>
          StartsWith(key, << "sk-" >>) /\ KeyLength(key) >= MinKeyLength
     /\ provider = "gemini" => KeyLength(key) >= MinGeminiKeyLength

\* A setCredentials that stores the key before it looks at it.
setCredentialsUnvalidated(k) ==
  /\ adapter.pc = "idle"
  /\ LET t == adapter.type
         ok == k # NoKey /\ validateApiKeyFormat(t, k)
     IN /\ secretStore' = [secretStore EXCEPT ![t] = trim(k)]
        /\ adapter' =
             [adapter EXCEPT !.key = IF ok THEN k ELSE @,
                             !.ready = IF ok THEN TRUE ELSE @,
                             !.cred = [op |-> "setCredentials",
                                       apiKey |-> k, rejected |-> ~ ok]]
  /\ UNCHANGED <<config, activeProvider, responseCache, apiKey, history,
                 calls, orphans, envOps, cleared, stream, switched>>

\* setCredentials({apiKey: k}): a missing key and a key of the wrong
\* format throw; otherwise CredentialManager.setCredential stores the
\* trimmed key and the adapter keeps the key as it was given.
setCredentials(k) ==
  /\ adapter.pc = "idle"
  /\ LET t == adapter.type
         ok == k # NoKey /\ validateApiKeyFormat(t, k)
     IN /\ secretStore' = IF ok THEN [secretStore EXCEPT ![t] = trim(k)]
                          ELSE secretStore
        /\ adapter' =
             [adapter EXCEPT !.key = IF ok THEN k ELSE @,
                             !.ready = IF ok THEN TRUE ELSE @,
                             !.cred = [op |-> "setCredentials",
                                       apiKey |-> k, rejected |-> ~ ok]]
  /\ UNCHANGED <<config, activeProvider, responseCache, apiKey, history,
                 calls, orphans, envOps, cleared, stream, switched>>

\* clearCredentials: deleteCredential, then this.apiKey = null.
clearCredentials ==
  /\ adapter.pc = "idle"
  /\ secretStore' = [secretStore EXCEPT ![adapter.type] = NoKey]
  /\ adapter' = [adapter EXCEPT !.key = NoKey, !.ready = FALSE,
                                !.cred = [op |-> "clearCredentials",
                                          apiKey |-> NoKey,
                                          rejected |-> FALSE]]
  /\ UNCHANGED <<config, activeProvider, responseCache, apiKey, history,
                 calls, orphans, envOps, cleared, stream, switched>>

\* isAvailable: this.apiKey = await getCredential(this.type).
isAvailable ==
  /\ adapter.pc = "idle"
  /\ adapter' = [adapter EXCEPT !.key = secretStore[adapter.type],
                                !.ready = secretStore[adapter.type] # NoKey,
                                !.cred = [op |-> "isAvailable",
                                          apiKey |-> NoKey,
                                          rejected |-> FALSE]]
  /\ UNCHANGED <<config, activeProvider, responseCache, secretStore, apiKey,
                 history, calls, orphans, envOps, cleared, stream, switched>>

\* getCapabilities().isAvailable
CapabilityAvailable(a) == a.key # NoKey

\* storeInHistory applied on its own to an adapter's history.
StoreExchange(r, text) ==
  /\ adapter.pc = "idle"
  /\ Len(adapter.log[r.filePath]) < MaxExchanges
  /\ adapter' = [adapter EXCEPT
                   !.hist[r.filePath] = storeInHistory(@, r, text),
                   !.log[r.filePath] = Append(@, <<r.question, text>>)]
  /\ UNCHANGED <<config, activeProvider, responseCache, secretStore, apiKey,
                 history, calls, orphans, envOps, cleared, stream, switched>>

-----------------------------------------------------------------------------
(* Time *)

\* The calls with an armed timer (withTimeout's or delay's setTimeout).
Armed == {c \in CallIds : calls[c].pc \in {"wait", "sleep", "fbwait"}}

\* withTimeout's timer of the sendRequestStream invocation is armed.
StreamArmed == stream.pc = "wait"

\* A promise that is already settled is delivered before any timer.
Settled ==
  \E c \in CallIds : calls[c].pc = "fbwait" /\ calls[c].noKey

\* The invocation that returned last, no other one started since.
Latest(c) ==
  /\ calls[c].pc = "done"
  /\ \A d \in CallIds : d > c => calls[d].pc = "idle"

\* Ages beyond the TTL are all alike: expired.
Older(age, d) ==
  IF age + d > CACHE_TTL THEN CACHE_TTL + 1 ELSE age + d

\* The durations the clock may move by: up to the next timer, or while no
\* timer is armed the cache TTL or just over it.
TickSteps ==
  IF Armed = {} /\ ~ StreamArmed THEN {CACHE_TTL, CACHE_TTL + 1}
  ELSE {calls[c].timer : c \in Armed}
         \cup (IF StreamArmed THEN {stream.timer} ELSE {})

\* d milliseconds pass; no armed timer is overrun.  The response that was
\* returned last grows older like the cache entries (it is the same object
\* when it was cached), up to the start of the next invocation.
Tick(d) ==
  /\ ~ Settled
  /\ d > 0
  /\ \A c \in Armed : d <= calls[c].timer
  /\ StreamArmed => d <= stream.timer
  /\ stream' = IF StreamArmed THEN [stream EXCEPT !.timer = @ - d]
               ELSE stream
  /\ calls' = [c \in CallIds |->
                 IF c \in Armed THEN [calls[c] EXCEPT !.timer = @ - d,
                                                       !.elapsed = @ + d]
                 ELSE IF Latest(c) /\ calls[c].kind = "response"
                      THEN [calls[c] EXCEPT !.response.age = Older(@, d)]
                      ELSE calls[c]]
  /\ responseCache' = [k \in DOMAIN responseCache |->
                         [responseCache[k] EXCEPT !.age = Older(@, d)]]
  /\ UNCHANGED <<config, activeProvider, secretStore, apiKey, history,
                 orphans, envOps, cleared, switched, adapter>>

Next ==
  \/ \E c \in CallIds, r \in Requests : Start(c, r)
  \/ \E c \in CallIds : Attempt(c)
  \/ \E c \in CallIds, o \in {"ok"} \cup AdapterErrors : AdapterResponds(c, o)
  \/ \E c \in CallIds : Timeout(c)
  \/ \E c \in CallIds : Wake(c)
  \/ \E c \in CallIds : FallbackBegin(c)
  \/ \E c \in CallIds, o \in {"ok", NotConfigured} \cup AdapterErrors :
       FallbackResponds(c, o)
  \/ \E c \in CallIds : FallbackTimeout(c)
  \/ ClearCache
  \/ \E d \in TickSteps : Tick(d)

\* One consumer that awaits each sendRequest before the next one and may
\* clear the cache; the provider and the credentials are switched by the
\* fallback chain only, and the abandoned adapter calls do not end within
\* the run.
Spec == Init /\ [][Next]_vars

\* The response cache after one successful sendRequest(r) by provider p.
CacheAfter(r, p) ==
  addToCache(<<>>, generateCacheKey(r), SuccessResponse(p))

\* A manager that served no or one sendRequest before, whose consumer now
\* streams, switches providers and edits credentials.
InitOps ==
  /\ config \in Configs
  /\ activeProvider = config.defaultProvider
  /\ responseCache \in
       {<<>>} \cup {CacheAfter(r, config.defaultProvider) : r \in Requests}
  /\ secretStore \in [Providers -> BOOLEAN]
  /\ responseCache # <<>> => secretStore[config.defaultProvider]
  /\ apiKey = [p \in Providers |->
                 responseCache # <<>> /\ p = config.defaultProvider]
  /\ history = [p \in Providers |-> [f \in FilePaths |-> <<>>]]
  /\ calls = [c \in CallIds |-> IdleCall]
  /\ orphans = {}
  /\ envOps = 0
  /\ cleared = FALSE
  /\ stream = IdleStream
  /\ switched = NoSwitch
  /\ adapter = IdleAdapter("openai", FALSE)

NextOps ==
  \/ \E r \in Requests : StreamStart(r)
  \/ \E o \in StreamOutcomes : StreamResponds(o)
  \/ StreamTimeout
  \/ \E p \in Providers : SwitchProvider(p)
  \/ \E p \in Providers : SetCredentials(p)
  \/ \E p \in Providers : ClearCredentials(p)
  \/ \E o \in orphans : OrphanCompletes(o)
  \/ ClearCache
  \/ \E d \in TickSteps : Tick(d)

SpecOps == InitOps /\ [][NextOps]_vars

\* Consumers that do not await one another: sendRequest invocations
\* overlap, the provider is switched and the cache cleared in between, and
\* the adapter calls abandoned by a timeout end in the background.
InitConcurrent ==
  /\ Init
  /\ config.maxRetries = MaxRetriesCfg

NextConcurrent ==
  \/ \E c \in CallIds, r \in Requests : StartOverlapping(c, r)
  \/ \E c \in CallIds : Attempt(c)
  \/ \E c \in CallIds, o \in {"ok", TransientError} : AdapterResponds(c, o)
  \/ \E c \in CallIds : Wake(c)
  \/ \E c \in CallIds : FallbackBegin(c)
  \/ \E c \in CallIds, o \in {"ok", NotConfigured, TransientError} :
       FallbackResponds(c, o)
  \/ \E p \in Providers : SwitchProvider(p)
  \/ \E d \in TickSteps : Tick(d)

SpecConcurrent == InitConcurrent /\ [][NextConcurrent]_vars

\* The members of AIProviderType.
AIProviderTypes == Providers \cup {"copilot", "vscode-lm"}

\* A manager whose configuration names any provider type as the default,
\* without fallback and with a single attempt.  The two adapters over the
\* language model see the same extension.
InitAnyType ==
  /\ config \in [defaultProvider : AIProviderTypes,
                 enableFallback : {FALSE},
                 enabledProviders : EnabledOrders,
                 requestTimeout : {RequestTimeout},
                 maxRetries : {1}]
  /\ activeProvider = config.defaultProvider
  /\ responseCache = <<>>
  /\ secretStore \in [AIProviderTypes -> BOOLEAN]
  /\ secretStore["vscode-lm"] = secretStore["copilot"]
  /\ apiKey = [p \in AIProviderTypes |-> FALSE]
  /\ history = [p \in AIProviderTypes |-> [f \in FilePaths |-> <<>>]]
  /\ calls = [c \in CallIds |-> IdleCall]
  /\ orphans = {}
  /\ envOps = 0
  /\ cleared = FALSE
  /\ stream = IdleStream
  /\ switched = NoSwitch
  /\ adapter = IdleAdapter("openai", FALSE)

NextAnyType ==
  \/ \E c \in CallIds, r \in Requests : Start(c, r)
  \/ \E c \in CallIds : Attempt(c)
  \/ \E c \in CallIds, o \in {"ok"} \cup AdapterErrors : AdapterResponds(c, o)
  \/ \E c \in CallIds : Timeout(c)
  \/ \E d \in TickSteps : Tick(d)

SpecAnyType == InitAnyType /\ [][NextAnyType]_vars

\* One consumer that asks either question about either file.
NextFiles ==
  \/ \E c \in CallIds, r \in AllRequests : Start(c, r)
  \/ \E c \in CallIds : Attempt(c)
  \/ \E c \in CallIds, o \in {"ok", TransientError} : AdapterResponds(c, o)
  \/ \E c \in CallIds : Wake(c)
  \/ \E c \in CallIds : FallbackBegin(c)
  \/ \E c \in CallIds, o \in {"ok", NotConfigured, TransientError} :
       FallbackResponds(c, o)
  \/ ClearCache
  \/ \E d \in TickSteps : Tick(d)

SpecFiles == InitConcurrent /\ [][NextFiles]_vars

\* One consumer that awaits each sendRequest before the next one, while
\* the adapter calls abandoned by a timeout end in the background.
NextBackground ==
  \/ \E c \in CallIds, r \in Requests : Start(c, r)
  \/ \E c \in CallIds : Attempt(c)
  \/ \E c \in CallIds, o \in {"ok"} \cup AdapterErrors : AdapterResponds(c, o)
  \/ \E c \in CallIds : Timeout(c)
  \/ \E c \in CallIds : Wake(c)
  \/ \E c \in CallIds : FallbackBegin(c)
  \/ \E c \in CallIds, o \in {"ok", NotConfigured} \cup AdapterErrors :
       FallbackResponds(c, o)
  \/ \E c \in CallIds : FallbackTimeout(c)
  \/ \E o \in orphans : OrphanCompletes(o)
  \/ \E d \in TickSteps : Tick(d)

SpecBackground == Init /\ [][NextBackground]_vars

\* One sendRequest on a manager configured with up to MaxBackoffRetries
\* attempts.
RetryConfigs ==
  [defaultProvider : {"gemini"},
   enableFallback  : BOOLEAN,
   enabledProviders : EnabledOrders,
   requestTimeout  : {RequestTimeout},
   maxRetries      : 1..MaxBackoffRetries]

InitRetry ==
  /\ config \in RetryConfigs
  /\ activeProvider = config.defaultProvider
  /\ responseCache = <<>>
  /\ secretStore \in [Providers -> BOOLEAN]
  /\ apiKey = [p \in Providers |-> FALSE]
  /\ history = [p \in Providers |-> [f \in FilePaths |-> <<>>]]
  /\ calls = [c \in CallIds |-> IdleCall]
  /\ orphans = {}
  /\ envOps = 0
  /\ cleared = FALSE
  /\ stream = IdleStream
  /\ switched = NoSwitch
  /\ adapter = IdleAdapter("openai", FALSE)

NextRetry ==
  \/ \E r \in Requests : Start(1, r)
  \/ Attempt(1)
  \/ \E o \in {"ok"} \cup AdapterErrors : AdapterResponds(1, o)
  \/ Timeout(1)
  \/ Wake(1)
  \/ FallbackBegin(1)
  \/ \E o \in {"ok", NotConfigured} \cup AdapterErrors :
       FallbackResponds(1, o)
  \/ FallbackTimeout(1)
  \/ \E d \in TickSteps : Tick(d)

SpecRetry == InitRetry /\ [][NextRetry]_vars

\* The same manager with the enableRetry flag of its configuration in
\* either position.
RetryFlagConfigs ==
  [defaultProvider : {"gemini"},
   enableFallback  : BOOLEAN,
   enabledProviders : EnabledOrders,
   requestTimeout  : {RequestTimeout},
   enableRetry     : BOOLEAN,
   maxRetries      : 1..MaxBackoffRetries]

InitRetryFlag ==
  /\ config \in RetryFlagConfigs
  /\ activeProvider = config.defaultProvider
  /\ responseCache = <<>>
  /\ secretStore \in [Providers -> BOOLEAN]
  /\ apiKey = [p \in Providers |-> FALSE]
  /\ history = [p \in Providers |-> [f \in FilePaths |-> <<>>]]
  /\ calls = [c \in CallIds |-> IdleCall]
  /\ orphans = {}
  /\ envOps = 0
  /\ cleared = FALSE
  /\ stream = IdleStream
  /\ switched = NoSwitch
  /\ adapter = IdleAdapter("openai", FALSE)

SpecRetryFlag == InitRetryFlag /\ [][NextRetry]_vars

\* The scheduling the run-time gives: isAvailable() resolves, armed timers
\* fire and their callbacks run, a settled promise is delivered; an adapter
\* call that is not settled may stay so for ever.
FairRetry ==
  /\ WF_vars(Attempt(1))
  /\ WF_vars(Timeout(1))
  /\ WF_vars(Wake(1))
  /\ WF_vars(FallbackBegin(1))
  /\ WF_vars(FallbackTimeout(1))
  /\ WF_vars(FallbackResponds(1, NotConfigured))
  /\ WF_vars(Armed # {} /\ \E d \in TickSteps : Tick(d))

SpecRetryLive == SpecRetry /\ FairRetry

\* The manager's configuration while the adapter is used on its own: the
\* default one over the manager's providers, its retries within the bound.
DefaultConfig ==
  [defaultProvider |-> "gemini", enableFallback |-> TRUE,
   enabledProviders |-> <<"gemini", "claude", "openai">>,
   requestTimeout |-> RequestTimeout, maxRetries |-> 1]

\* An adapter of any of the four types, with or without its key, whose
\* consumer calls it directly, one call after the other.
InitAdapter ==
  /\ config = DefaultConfig
  /\ activeProvider = config.defaultProvider
  /\ responseCache = <<>>
  /\ secretStore = [p \in Providers |-> FALSE]
  /\ apiKey = [p \in Providers |-> FALSE]
  /\ history = [p \in Providers |-> [f \in FilePaths |-> <<>>]]
  /\ calls = [c \in CallIds |-> IdleCall]
  /\ orphans = {}
  /\ envOps = 0
  /\ cleared = FALSE
  /\ stream = IdleStream
  /\ switched = NoSwitch
  /\ adapter \in {IdleAdapter(t, ready) : t \in Adapters, ready \in BOOLEAN}

NextAdapter ==
  \/ \E r \in Requests : AdapterSend(r)
  \/ \E result \in BackendResults, usage \in {NoUsage, BackendUsage} :
       AdapterBackendReplies(result, usage)
  \/ \E r \in Requests, script \in Scripts(adapter.type) :
       AdapterStream(r, script)
  \/ \E n \in 1..MaxRead : AdapterRead(n)
  \/ \E usage \in {NoUsage, BackendUsage} : AdapterStreamEnds(usage)
  \/ AdapterStreamFails
  \/ ConsumerCancels

SpecAdapter == InitAdapter /\ [][NextAdapter]_vars

\* A credential-based adapter and the secret store, which here holds the
\* stored key of each provider, left there by an earlier session or not;
\* the consumer sets and clears credentials and asks for availability.
InitCredentials ==
  /\ config = DefaultConfig
  /\ activeProvider = config.defaultProvider
  /\ responseCache = <<>>
  /\ secretStore \in [Providers -> {NoKey, << "sk-", "ant-", KeyBody >>}]
  /\ apiKey = [p \in Providers |-> FALSE]
  /\ history = [p \in Providers |-> [f \in FilePaths |-> <<>>]]
  /\ calls = [c \in CallIds |-> IdleCall]
  /\ orphans = {}
  /\ envOps = 0
  /\ cleared = FALSE
  /\ stream = IdleStream
  /\ switched = NoSwitch
  /\ adapter \in {IdleAdapter(t, FALSE) : t \in Providers}

NextCredentials ==
  \/ \E k \in Keys : setCredentials(k)
  \/ clearCredentials
  \/ isAvailable

SpecCredentials == InitCredentials /\ [][NextCredentials]_vars

\* The answers of the model.
Answers == {AnswerText, "Hello, world!"}

\* The history store of an adapter of any type, exchange after exchange.
InitHistory ==
  /\ InitAdapter
  /\ adapter.ready

NextHistory ==
  \E r \in Requests, text \in Answers : StoreExchange(r, text)

SpecHistory == InitHistory /\ [][NextHistory]_vars

-----------------------------------------------------------------------------
(* Properties *)

\* The step that enters sendRequest for invocation c.
Starts(c) == calls[c].pc = "idle" /\ calls'[c].pc # "idle"

\* The trace entries of the retry loop.
RetryEntries(cr) == SelectSeq(cr.trace, LAMBDA e : e.stage = "retry")

\* The enabled providers other than p, in configured order.
Others(p) == SelectSeq(config.enabledProviders, LAMBDA q : q # p)

\* C1: within one sendRequest a failure of the active adapter on an attempt
\* before the last one is retried, never handed to the caller: a
\* success:false response for a transient failure is returned only from
\* attempt number maxRetries.
C1_EarlierFailuresRetried ==
  \A c \in CallIds :
    (/\ Latest(c)
     /\ calls[c].kind = "response"
     /\ calls[c].via = "retry"
     /\ calls[c].response.error = TransientError)
    => calls[c].attempt = config.maxRetries

\* C2: two sendRequest calls with the same request, one after the other,
\* the second within the TTL of the first's response and no clearCache in
\* between: when the first returned a success after one adapter network
\* call, the second makes none, one network call in total.
C2_OneNetworkCallWithinTtl ==
  \A c \in CallIds :
    (/\ c > 1
     /\ Latest(c)
     /\ ~ calls[c].clearedBefore
     /\ calls[c - 1].request = calls[c].request
     /\ calls[c - 1].kind = "response"
     /\ calls[c - 1].response.success
     /\ calls[c - 1].netCalls = 1
     /\ calls[c - 1].response.age <= CACHE_TTL)
    => calls[c - 1].netCalls + calls[c].netCalls = 1

\* C3: every entry of the response cache has success = true.
C3_CacheHoldsSuccessesOnly ==
  \A k \in DOMAIN responseCache : responseCache[k].success

\* C4: a lookup returns an entry only while its age is at most the TTL; a
\* lookup that finds an older entry is a miss and deletes it; an entry
\* leaves the cache only by such a lookup of its own key or by clearCache,
\* never by the passing of time.
C4_ExpiredNeverServed ==
  [][ /\ \A c \in CallIds :
           Starts(c) =>
             LET key == calls'[c].cacheKey IN
             /\ (key \in DOMAIN responseCache
                   /\ responseCache[key].age > CACHE_TTL)
                  => /\ calls'[c].pc = "attempt"
                     /\ key \notin DOMAIN responseCache'
             /\ calls'[c].via = "cache"
                  => /\ key \in DOMAIN responseCache
                     /\ responseCache[key].age <= CACHE_TTL
                     /\ calls'[c].response = responseCache[key]
      /\ \A k \in DOMAIN responseCache \ DOMAIN responseCache' :
           \/ responseCache' = <<>> /\ UNCHANGED calls
           \/ \E c \in CallIds :
                /\ Starts(c)
                /\ calls'[c].cacheKey = k
                /\ responseCache[k].age > CACHE_TTL
    ]_vars

\* C4 witness: the second invocation repeated the first one's request after
\* its cached response had outlived the TTL: a miss, the entry is gone.
C4_Witness ==
  \E c \in CallIds :
    /\ c > 1
    /\ calls[c].pc = "attempt"
    /\ ~ calls[c].clearedBefore
    /\ calls[c - 1].cacheKey = calls[c].cacheKey
    /\ calls[c - 1].via = "retry"
    /\ calls[c - 1].response.age > CACHE_TTL
    /\ calls[c].cacheKey \notin DOMAIN responseCache

\* C5: a sendRequest that finds a fresh entry under its key returns it at
\* once: no isAvailable and no adapter call, and the histories, the cache,
\* the adapters' keys and the active provider stay as they are.
C5_CacheHitTouchesNothing ==
  [][ \A c \in CallIds :
        (/\ Starts(c)
         /\ calls'[c].cacheKey \in DOMAIN responseCache
         /\ responseCache[calls'[c].cacheKey].age <= CACHE_TTL)
        => /\ calls'[c].pc = "done"
           /\ calls'[c].kind = "response"
           /\ calls'[c].response = responseCache[calls'[c].cacheKey]
           /\ calls'[c].netCalls = 0
           /\ calls'[c].trace = <<>>
           /\ UNCHANGED <<history, responseCache, activeProvider, apiKey,
                          orphans>>
    ]_vars

\* C5 witness: an invocation was answered from the cache, with an entry as
\* old as the TTL allows, after an adapter had written its history.
C5_Witness ==
  \E c \in CallIds :
    /\ Latest(c)
    /\ calls[c].via = "cache"
    /\ calls[c].response.age = CACHE_TTL
    /\ calls[c].response.success
    /\ calls[c].cacheKey \in DOMAIN responseCache
    /\ \E p \in Providers : history[p][calls[c].request.filePath] # <<>>

\* C6: with enableFallback on, when every attempt on the active provider A
\* failed, and of the other enabled providers B, C in that order B has no
\* credential and C has one and answers successfully whenever called, the
\* invocation returns C's success:true response and C is the active
\* provider afterwards.
C6_FallbackSkipsUnavailable ==
  \A c \in CallIds :
    (/\ Latest(c)
     /\ calls[c].trace # <<>>
     /\ config.enableFallback
     /\ Len(Others(calls[c].trace[1].provider)) = 2
     /\ ~ secretStore[Others(calls[c].trace[1].provider)[1]]
     /\ secretStore[Others(calls[c].trace[1].provider)[2]]
     /\ \A i \in DOMAIN calls[c].trace :
          /\ calls[c].trace[i].stage = "retry"
               => calls[c].trace[i].outcome # "ok"
          /\ calls[c].trace[i].provider = Others(calls[c].trace[1].provider)[2]
               => calls[c].trace[i].outcome = "ok")
    => /\ calls[c].kind = "response"
       /\ calls[c].response.success
       /\ calls[c].response.provider = Others(calls[c].trace[1].provider)[2]
       /\ activeProvider = Others(calls[c].trace[1].provider)[2]

\* C7: the step in which a fallback candidate's success:true response is
\* returned also writes it to the cache under the request's key.
C7_FallbackSuccessCached ==
  [][ \A c \in CallIds :
        (/\ calls[c].pc = "fbwait"
         /\ calls'[c].pc = "done"
         /\ calls'[c].kind = "response"
         /\ calls'[c].response.success)
        => /\ calls[c].cacheKey \in DOMAIN responseCache'
           /\ responseCache'[calls[c].cacheKey] = calls'[c].response
    ]_vars

\* C8: the fallback chain makes a candidate the active provider and returns
\* its response only if that response has success = true.
C8_FallbackAdoptsSuccessOnly ==
  \A c \in CallIds :
    (Latest(c) /\ calls[c].kind = "response" /\ calls[c].via = "fallback")
    => calls[c].response.success

\* C9: with enableFallback on, the success:false response of the active
\* adapter for a configuration or permanent failure is not what the caller
\* gets: the other providers are tried instead.
C9_PermanentFailureFallsBack ==
  \A c \in CallIds :
    (/\ Latest(c)
     /\ config.enableFallback
     /\ calls[c].kind = "response"
     /\ calls[c].via = "retry")
    => calls[c].response.error # PermanentError

CountedCalls(cr) ==
  Len(SelectSeq(cr.trace,
                LAMBDA e : e.outcome \notin {"unavailable", NotConfigured}))
  + (IF cr.pc \in {"wait", "fbwait"} /\ ~ cr.noKey THEN 1 ELSE 0)

TotalFailure(cr) ==
  /\ cr.pc = "done"
  /\ cr.trace # <<>>
  /\ \A i \in DOMAIN cr.trace :
       cr.trace[i].outcome \in {"unavailable", "timeout"}

\* C11 as stated: on total failure sendRequest hands its caller one
\* response with success = false and raises no exception.
C11_TotalFailureIsResponse ==
  \A c \in CallIds :
    (Latest(c) /\ TotalFailure(calls[c]))
    => /\ calls[c].kind = "response"
       /\ ~ calls[c].response.success

\* C11 as amended: on total failure sendRequest rejects: the caller gets an
\* Error with a message and no response at all, and nothing is cached
\* under the request's key by the invocation.
C11_TotalFailureThrows ==
  \A c \in CallIds :
    (Latest(c) /\ TotalFailure(calls[c]))
    => /\ calls[c].kind = "throw"
       /\ calls[c].error # ""
       /\ calls[c].response = NoResponse

\* C11 witness: every attempt on the active provider and then every
\* fallback candidate timed out, and the invocation ended.
C11_Witness ==
  \E c \in CallIds :
    /\ Latest(c)
    /\ TotalFailure(calls[c])
    /\ Len(RetryEntries(calls[c])) = config.maxRetries
    /\ Len(calls[c].trace) > config.maxRetries
    /\ calls[c].trace[Len(calls[c].trace)].outcome = "timeout"
    /\ calls[c].trace[1].outcome = "timeout"

\* The message of the exception an attempt or a candidate failed with.
FailureMessage(outcome) ==
  IF outcome = "unavailable" THEN "Provider not available"
  ELSE "Request timeout"

\* The trace entries of the fallback chain.
FallbackEntries(cr) == SelectSeq(cr.trace, LAMBDA e : e.stage = "fallback")

RECURSIVE SumSeq(_)
SumSeq(s) == IF s = <<>> THEN 0 ELSE Head(s) + SumSeq(Tail(s))

\* The invocations all of whose adapter calls so far ran into the timer.
OnlyTimeouts(cr) ==
  /\ cr.trace # <<>>
  /\ \A i \in DOMAIN cr.trace : cr.trace[i].outcome = "timeout"

\* C13 as stated: once an adapter call of a sendRequest has run into the
\* timer, requestTimeout after it began, the invocation has reported a
\* timeout failure to its caller.
C13_TimeoutReportedAtOnce ==
  \A c \in CallIds :
    (/\ calls[c].trace # <<>>
     /\ calls[c].trace[Len(calls[c].trace)].outcome = "timeout")
    => /\ calls[c].pc = "done"
       /\ calls[c].kind = "throw"
       /\ calls[c].error = "Request timeout"

\* C13 as amended: an adapter call is awaited for requestTimeout at most
\* and then counts as a failed attempt; sendRequest goes on with the
\* backoff, the retries and the fallback chain.  When no adapter call ever
\* resolves it ends, with an exception, after every attempt and every
\* candidate took requestTimeout and every backoff was slept, and the
\* exception is the timeout's only with fallback off.  No invocation takes
\* longer than that with all the other providers as candidates.
C13_TimeoutPerAttempt ==
  \A c \in CallIds :
    LET cr == calls[c]
        backoffs == [i \in 1..(config.maxRetries - 1) |-> BackoffDelay(i)]
    IN /\ cr.pc \in {"wait", "fbwait"}
            => cr.timer \in 0..config.requestTimeout
       /\ cr.elapsed <= (config.maxRetries + Cardinality(Providers) - 1)
                          * config.requestTimeout + SumSeq(backoffs)
       /\ (Latest(c) /\ OnlyTimeouts(cr))
            => /\ cr.kind = "throw"
               /\ cr.sleeps = backoffs
               /\ cr.elapsed = Len(cr.trace) * config.requestTimeout
                                 + SumSeq(backoffs)
               /\ Len(cr.trace) = config.maxRetries + Len(cr.fbList)
               /\ (cr.error = "Request timeout") = (~ config.enableFallback)

\* C13 witness: with two attempts and fallback off both adapter calls never
\* resolved; the caller got the timeout error 61 seconds after its call.
C13_Witness ==
  \E c \in CallIds :
    /\ Latest(c)
    /\ OnlyTimeouts(calls[c])
    /\ Len(calls[c].trace) = 2
    /\ calls[c].error = "Request timeout"
    /\ calls[c].elapsed = 2 * RequestTimeout + RETRY_DELAY

\* C14: sendRequestStream leaves the response cache and the active provider
\* as they are and does not look into the cache: with the active provider
\* available it makes one adapter sendRequestStream call, whatever the
\* cache holds, and otherwise none; the adapter's response, the timeout or
\* the unavailability ends the invocation in that very step, whatever
\* maxRetries and enableFallback are, and nothing follows.
C14_StreamBypassesCacheAndRetry ==
  [][ /\ stream'.pc # stream.pc
           => UNCHANGED <<responseCache, activeProvider, calls, config>>
      /\ (stream.pc = "idle" /\ stream'.pc # "idle")
           => /\ stream'.target = activeProvider
              /\ IF secretStore[activeProvider]
                 THEN /\ stream'.pc = "wait"
                      /\ stream'.adapterCalls = 1
                      /\ stream'.timer = config.requestTimeout
                 ELSE /\ stream'.pc = "done"
                      /\ stream'.kind = "throw"
                      /\ stream'.adapterCalls = 0
      /\ (stream.pc = "wait" /\ stream'.pc # "wait")
           => /\ stream'.pc = "done"
              /\ stream'.adapterCalls = 1
              /\ \/ /\ stream'.kind = "response"
                    /\ stream'.response.provider = stream.target
                    /\ stream'.response.age = 0
                 \/ /\ stream'.kind = "throw"
                    /\ stream.timer = 0
      /\ stream.pc = "done" => stream' = stream
    ]_vars

\* C14 witness: with two attempts and fallback configured, another provider
\* ready and a fresh success cached under the request's key, the streaming
\* invocation ended with the adapter's success:false response.
C14_Witness ==
  /\ stream.pc = "done"
  /\ stream.kind = "response"
  /\ ~ stream.response.success
  /\ stream.adapterCalls = 1
  /\ config.maxRetries = 2
  /\ config.enableFallback
  /\ \E p \in Providers : p # stream.target /\ secretStore[p]
  /\ generateCacheKey(stream.request) \in DOMAIN responseCache
  /\ responseCache[generateCacheKey(stream.request)].age <= CACHE_TTL
  /\ responseCache[generateCacheKey(stream.request)].success
  /\ activeProvider = stream.target

\* C15: a switchProvider(p) call makes p the active provider exactly when
\* p's isAvailable() is true, that is when the credential store has a key
\* for p (which the adapter loads); otherwise the call rejects and the
\* active provider is the one it was before the call.
C15_SwitchOnlyToAvailable ==
  [][ switched'.n = switched.n + 1
        => LET p == switched'.target IN
           /\ switched'.before = activeProvider
           /\ apiKey'[p] = secretStore[p]
           /\ secretStore[p]
                => /\ switched'.result = "resolved"
                   /\ activeProvider' = p
           /\ ~ secretStore[p]
                => /\ switched'.result = "rejected"
                   /\ activeProvider' = activeProvider
    ]_vars

\* C15 witness: the credentials of a provider were cleared and a switch to
\* it from another provider was rejected; the active provider stayed.
C15_Witness ==
  /\ switched.result = "rejected"
  /\ switched.target # switched.before
  /\ activeProvider = switched.before
  /\ ~ secretStore[switched.target]
  /\ envOps = 2

\* C16: a buffered adapter call that met a missing credential, an HTTP
\* error status, a network exception or a payload without text resolved,
\* for each of the four adapters, with success = false, text = "" and a
\* non-empty error; it never rejected.
C16_AdapterFailuresResolveFalse ==
  (/\ adapter.pc = "idle"
   /\ adapter.last.n > 0
   /\ ~ adapter.last.streamed
   /\ adapter.cause \in {"nokey", "401", "503", "network", "notext"})
  => /\ ~ adapter.last.rejected
     /\ ~ adapter.last.success
     /\ adapter.last.text = ""
     /\ adapter.last.error # ""

\* C17: every response an adapter resolved with, buffered or streamed, has
\* success = false exactly when its text is empty and success = true
\* exactly when it has no error.
C17_SuccessIffTextIffNoError ==
  adapter.last.n > 0
  => /\ (~ adapter.last.success) <=> (adapter.last.text = "")
     /\ adapter.last.success <=> (adapter.last.error = "")

\* The messages an adapter's history holds for a sequence of exchanges.
Messages(exchanges) ==
  [i \in 1..(2 * Len(exchanges)) |->
     IF i % 2 = 1
     THEN [role |-> "user", content |-> exchanges[(i + 1) \div 2][1]]
     ELSE [role |-> "assistant", content |-> exchanges[i \div 2][2]]]

\* The last n elements of a sequence (all of them when it is shorter).
LastOf(s, n) == IF Len(s) > n THEN SubSeq(s, Len(s) - n + 1, Len(s)) ELSE s

\* C18: under every conversation key the history has at most 10 entries;
\* it is the user and assistant messages of the 5 most recent exchanges
\* appended under the key, in their order, so exactly 10 entries once more
\* than 5 exchanges were appended.
C18_HistoryKeepsLastFive ==
  \A f \in FilePaths :
    /\ Len(adapter.hist[f]) <= 10
    /\ adapter.hist[f] = Messages(LastOf(adapter.log[f], 5))
    /\ Len(adapter.log[f]) > 5 => Len(adapter.hist[f]) = 10

\* C18 witness: six exchanges were appended under one key, the first one
\* unlike the others; the history holds the last five.
C18_Witness ==
  \E f \in FilePaths :
    /\ Len(adapter.log[f]) = 6
    /\ adapter.log[f][1][2] # adapter.log[f][2][2]
    /\ adapter.log[f][2][2] # adapter.log[f][6][2]
    /\ adapter.hist[f][1].content = adapter.log[f][2][1]
    /\ adapter.hist[f][10].content = adapter.log[f][6][2]

\* The concatenation of a sequence of strings.
RECURSIVE Concat(_)
Concat(s) == IF s = <<>> THEN "" ELSE Head(s) \o Concat(Tail(s))

\* The non-empty text fragments among the payloads decoded from a stream.
Fragments(seen) ==
  SelectSeq(seen, LAMBDA x : x \notin {NoTextEvent, DoneSentinel, ""})

\* C19: while a stream is read and when the call has resolved with
\* success = true, the onChunk calls made are the decoded non-empty text
\* fragments, one call each, in arrival order, and the text (the final
\* response's text) is their concatenation; once the call has resolved no
\* onChunk call of it follows.
C19_ChunksAggregateInOrder ==
  [][ /\ adapter'.pc = "streaming"
           => /\ SelectSeq(adapter'.chunks, LAMBDA x : x # "")
                   = Fragments(adapter'.seen)
              /\ adapter'.fullText = Concat(adapter'.chunks)
      /\ (adapter.pc = "streaming" /\ adapter'.pc = "idle"
            /\ adapter'.last.success)
           => /\ adapter'.last.text = Concat(adapter.chunks)
              /\ adapter'.chunks = adapter.chunks
              /\ adapter.script = <<>>
      /\ (adapter.pc = "idle" /\ adapter'.pc = "idle")
           => adapter'.chunks \in {adapter.chunks, <<>>}
    ]_vars

\* C19 witness: a parsing adapter decoded "Hello, " and "world!", called
\* onChunk for each and resolved with "Hello, world!".
C19_Witness ==
  /\ adapter.type \in SseAdapters
  /\ adapter.pc = "idle"
  /\ adapter.last.streamed
  /\ adapter.last.success
  /\ adapter.chunks = << "Hello, ", "world!" >>
  /\ adapter.last.text = "Hello, world!"

\* C20: once the consumer has signaled the cancellation of a stream the
\* adapter makes no further onChunk call, and the call resolves with
\* success = true and a stopReason that tells of the cancellation.
C20_CancelStopsStream ==
  /\ adapter.afterCancel = 0
  /\ (adapter.pc = "idle" /\ adapter.cancelled)
       => /\ adapter.last.success
          /\ adapter.last.stopReason = "cancelled"

\* The adapter calls invocation c started that have not ended yet: the one
\* it awaits and those a timeout made it abandon.
InFlightOf(c) ==
  Cardinality({o \in orphans : o.owner = c})
    + (IF calls[c].pc \in {"wait", "fbwait"} THEN 1 ELSE 0)

\* C21: while a sendRequest invocation is under way at most one adapter
\* call it started is in flight: an attempt or a fallback try begins only
\* after the adapter call of the attempt before has ended, also when that
\* attempt ended by timeout.
C21_OneAdapterCallInFlight ==
  \A c \in CallIds :
    calls[c].pc \notin {"idle", "done"} => InFlightOf(c) <= 1

\* Invocation d awaits its adapter call for the cache key of request r.
Awaits(d, r) ==
  /\ calls[d].pc = "wait"
  /\ calls[d].cacheKey = generateCacheKey(r)

\* C22: there is no single-flight de-duplication: while an invocation
\* awaits its adapter call, a second sendRequest with the same cache key
\* can be entered, misses the cache and goes to an attempt of its own; and
\* whenever two invocations with one key await the active adapter, each
\* awaits an adapter call of its own.
C22_NoSingleFlight ==
  /\ \A c \in CallIds, r \in Requests :
       (/\ calls[c].pc = "idle"
        /\ \A d \in CallIds : d < c => calls[d].pc # "idle"
        /\ \E d \in CallIds : Awaits(d, r)
        /\ ~ CacheFresh(responseCache, generateCacheKey(r)))
       => ENABLED (StartOverlapping(c, r) /\ calls'[c].pc = "attempt")
  /\ \A c, d \in CallIds :
       (/\ c # d
        /\ calls[c].pc = "wait"
        /\ calls[d].pc = "wait"
        /\ calls[c].cacheKey = calls[d].cacheKey)
       => /\ calls[c].netCalls >= 1
          /\ calls[d].netCalls >= 1

\* C22 witness: two invocations with the same cache key both missed the
\* cache and both await the adapter call of their first attempt.
C22_Witness ==
  /\ calls[1].pc = "wait"
  /\ calls[2].pc = "wait"
  /\ calls[1].request = calls[2].request
  /\ calls[1].netCalls = 1
  /\ calls[2].netCalls = 1
  /\ calls[1].target = calls[2].target

\* The step is a switchProvider call that found its target available.
SwitchCommits ==
  /\ switched'.n = switched.n + 1
  /\ switched'.result = "resolved"
  /\ secretStore[switched'.target]
  /\ activeProvider' = switched'.target

\* The step is a fallback try of invocation c that returns a response.
FallbackReturns(c) ==
  /\ calls[c].pc = "fbwait"
  /\ calls'[c].pc = "done"
  /\ calls'[c].kind = "response"
  /\ calls'[c].via = "fallback"
  /\ activeProvider' = calls[c].target

AttemptTargets(cr) ==
  [i \in DOMAIN RetryEntries(cr) |-> RetryEntries(cr)[i].provider]
    \o (IF cr.pc = "wait" THEN << cr.target >> ELSE << >>)

\* C24: all attempts of one sendRequest invocation go to the same adapter,
\* whatever happens to the active provider while the invocation is
\* suspended in an adapter call or a backoff sleep.
C24_AttemptsOnOneAdapter ==
  \A c \in CallIds :
    \A i, j \in DOMAIN AttemptTargets(calls[c]) :
      AttemptTargets(calls[c])[i] = AttemptTargets(calls[c])[j]

\* C25: the fallback chain of an invocation tried the enabled providers
\* that are available, the failed active provider left out, in
\* enabledProviders order, each once and without a backoff sleep, and it
\* stopped at the first one that succeeded: every candidate before the
\* last one tried failed, and the last one succeeded unless the list was
\* exhausted.
C25_FallbackTriesInOrderUntilSuccess ==
  \A c \in CallIds :
    (Latest(c) /\ FallbackEntries(calls[c]) # <<>>)
    => LET cr == calls[c]
           fe == FallbackEntries(cr)
           n == Len(fe)
       IN /\ cr.fbList = FallbackProviders(secretStore,
                                           config.enabledProviders,
                                           RetryEntries(cr)[1].provider)
          /\ n <= Len(cr.fbList)
          /\ \A i \in 1..n : fe[i].provider = cr.fbList[i]
          /\ Len(cr.sleeps) = Len(RetryEntries(cr)) - 1
          /\ \A i \in 1..(n - 1) : fe[i].outcome # "ok"
          /\ fe[n].outcome = "ok" \/ n = Len(cr.fbList)

\* The attempts of the retry loop that ended by an exception.
FailedAttempts(cr) ==
  SelectSeq(RetryEntries(cr),
            LAMBDA e : e.outcome \in {"unavailable", "timeout"})

\* C26: the k-th backoff sleep of an invocation lasts 1000 * 2^(k-1) ms
\* (1000, 2000, 4000, ...) and is slept in full; there is one sleep after
\* each failed attempt but the last one allowed, so none before the first
\* attempt, none after the final failed attempt and none between fallback
\* tries.
C26_BackoffDoublesFromOneSecond ==
  \A c \in CallIds :
    LET cr == calls[c]
        failed == Len(FailedAttempts(cr))
    IN /\ \A k \in DOMAIN cr.sleeps : cr.sleeps[k] = 1000 * (2 ^ (k - 1))
       /\ Len(cr.sleeps) =
            IF failed < config.maxRetries THEN failed
            ELSE config.maxRetries - 1
       /\ cr.pc = "sleep"
            => /\ cr.attempt = Len(cr.sleeps)
               /\ cr.timer <= cr.sleeps[Len(cr.sleeps)]
       /\ cr.pc \in {"fallback", "fbwait"}
            => Len(cr.sleeps) = config.maxRetries - 1
       /\ (/\ cr.pc \in {"attempt", "sleep", "fallback"}
           /\ \A i \in DOMAIN cr.trace : cr.trace[i].outcome = "unavailable")
            => cr.elapsed = SumSeq(cr.sleeps)
                              - (IF cr.pc = "sleep" THEN cr.timer ELSE 0)

\* C26 witness: after three failed attempts the invocation slept 1000,
\* 2000 and 4000 ms and is at its fourth attempt.
C26_Witness ==
  /\ calls[1].pc = "attempt"
  /\ calls[1].attempt = 4
  /\ calls[1].sleeps = << 1000, 2000, 4000 >>
  /\ calls[1].elapsed = 7000

\* C27: a sendRequest invocation that was entered ends, by a response or
\* by throwing, whether its adapter calls resolve or not; it starts at
\* most maxRetries adapter calls in its retry loop and at most one per
\* enabled provider in its fallback chain.
C27_SendRequestTerminates ==
  /\ \A c \in CallIds :
       [](/\ Len(RetryEntries(calls[c])) <= config.maxRetries
          /\ Len(FallbackEntries(calls[c])) <= Len(config.enabledProviders)
          /\ calls[c].netCalls
               <= config.maxRetries + Len(config.enabledProviders))
  /\ \A c \in CallIds :
       (calls[c].pc \notin {"idle", "done"}) ~> (calls[c].pc = "done")

\* C27 witness: no adapter call of the invocation ever resolved: four
\* attempts and two fallback tries timed out, and the invocation threw.
C27_Witness ==
  /\ calls[1].pc = "done"
  /\ calls[1].kind = "throw"
  /\ calls[1].netCalls = 6
  /\ Len(calls[1].trace) = 6
  /\ \A i \in DOMAIN calls[1].trace : calls[1].trace[i].outcome = "timeout"

\* C28: one sendRequest invocation causes at most one exchange to be
\* appended to the adapters' conversation histories, and an invocation
\* that ended by throwing causes none, the appends made after it has
\* returned included.
C28_AtMostOneExchangeAppended ==
  \A c \in CallIds :
    /\ calls[c].appends <= 1
    /\ (calls[c].pc = "done" /\ calls[c].kind = "throw")
         => calls[c].appends = 0

\* What a parsing adapter of type t has after it got the bytes in one read.
OneRead(t, bytes) == Consume(IdleAdapter(t, TRUE), bytes)

\* The bytes of its stream the adapter has read so far.
Consumed(a) == SubSeq(a.stream, 1, Len(a.stream) - Len(a.script))

\* C29: for the adapters that parse an event stream (OpenAI, Gemini) the
\* onChunk calls, the text and the part kept in the buffer are, after any
\* number of reads, those of one read of the same bytes: a line is parsed
\* when its terminator has arrived, the rest is carried over to the next
\* read, and the final text is that of the whole stream read at once.
C29_ReadsSplitAnywhere ==
  adapter.type \in SseAdapters
  => /\ adapter.pc = "streaming"
          => LET whole == OneRead(adapter.type, Consumed(adapter))
             IN /\ adapter.chunks = whole.chunks
                /\ adapter.fullText = whole.fullText
                /\ adapter.buffer = whole.buffer
                /\ Newline \notin Range(adapter.buffer)
                /\ Len(adapter.seen)
                     = Len(SelectSeq(Consumed(adapter),
                                     LAMBDA b : b = Newline))
     /\ (adapter.pc = "idle" /\ adapter.last.streamed
           /\ adapter.last.success)
          => LET whole == OneRead(adapter.type, adapter.stream)
             IN /\ adapter.chunks = whole.chunks
                /\ adapter.last.text = whole.fullText

\* C29 witness: a parsing adapter got the two lines of "Hello, " and
\* "world!" byte by byte, in six reads, and resolved with "Hello, world!".
C29_Witness ==
  /\ adapter.type \in SseAdapters
  /\ adapter.pc = "idle"
  /\ adapter.last.streamed
  /\ adapter.last.success
  /\ adapter.stream = EventLine("Hello, ") \o EventLine("world!")
  /\ adapter.reads = 6
  /\ adapter.chunks = << "Hello, ", "world!" >>
  /\ adapter.last.text = "Hello, world!"

\* C30: the OpenAI adapter's parser stops at the line of the done sentinel:
\* the sentinel makes no onChunk call, and no data line that arrives after
\* it does.
C30_SentinelEndsStream ==
  adapter.type = "openai"
  => /\ DoneSentinel \notin Range(adapter.chunks)
     /\ adapter.afterDone = 0

\* What the JSON parser is given for the complete lines of bytes, in order.
RECURSIVE Payloads(_)
Payloads(bytes) ==
  IF Newline \in Range(bytes)
  THEN << PayloadOf(SubSeq(bytes, 1, FirstNewline(bytes) - 1)) >>
         \o Payloads(SubSeq(bytes, FirstNewline(bytes) + 1, Len(bytes)))
  ELSE << >>

\* C31: a data line whose payload is not valid JSON is skipped and fails
\* nothing: the parsing adapter goes through every complete line of the
\* stream, the onChunk calls are the texts of the well-formed lines before
\* and after the malformed one, in order, and a call whose stream ended
\* resolves with success = true and their concatenation.
C31_MalformedLineSkipped ==
  adapter.type \in SseAdapters
  => /\ adapter.pc = "streaming"
          => /\ adapter.seen = Payloads(Consumed(adapter))
             /\ adapter.chunks = Fragments(adapter.seen)
     /\ (/\ adapter.pc = "idle"
         /\ adapter.last.streamed
         /\ adapter.cause = "stream"
         /\ NoTextEvent \in Range(adapter.seen))
          => /\ adapter.last.success
             /\ adapter.seen = Payloads(adapter.stream)
             /\ adapter.chunks = Fragments(adapter.seen)
             /\ adapter.last.text = Concat(adapter.chunks)

\* C31 witness: a stream with a malformed line between the lines of
\* "Hello, " and "world!" ended with success and "Hello, world!".
C31_Witness ==
  /\ adapter.type \in SseAdapters
  /\ adapter.pc = "idle"
  /\ adapter.last.streamed
  /\ adapter.last.success
  /\ adapter.seen = << "Hello, ", NoTextEvent, "world!" >>
  /\ adapter.chunks = << "Hello, ", "world!" >>
  /\ adapter.last.text = "Hello, world!"

-----------------------------------------------------------------------------
(* The payload of a backend call *)

\* C33: for every adapter, the payload of a backend call holds the
\* history stored under the request's filePath, in stored order, followed
\* by the current prompt as the last user message.
C33_PayloadCarriesHistory ==
  adapter.pc \in {"buffered", "streaming"} =>
    LET h == adapter.hist[adapter.request.filePath]
        p == adapter.payload
        n == Len(p)
    IN /\ n >= Len(h) + 1
       /\ p[n] = [role |-> "user",
                  content |-> buildPrompt(adapter.request)]
       /\ SubSeq(p, n - Len(h), n - 1) = h


-----------------------------------------------------------------------------
(* Token usage *)

\* C34: in every success response tokenUsage holds the counts the backend
\* reported when it reported them, and otherwise ceil(length(prompt)/4)
\* and ceil(length(text)/4); totalTokens is the sum of the two.
C34_TokenUsage ==
  (adapter.pc = "idle" /\ adapter.last.n > 0 /\ adapter.last.success) =>
    LET tu == adapter.last.tokenUsage
        u == adapter.usage
    IN /\ IF u.reported
          THEN /\ tu.inputTokens = u.inputTokens
               /\ tu.outputTokens = u.outputTokens
          ELSE /\ tu.inputTokens = Estimate(PromptLength(adapter.request))
               /\ tu.outputTokens = Estimate(Len(adapter.last.text))
       /\ tu.totalTokens = tu.inputTokens + tu.outputTokens


-----------------------------------------------------------------------------
(* The cache key *)

\* Two requests with the same question, errorType and errorMessage.
Agree(r1, r2) ==
  /\ r1.question = r2.question
  /\ r1.errorType = r2.errorType
  /\ r1.errorMessage = r2.errorMessage

\* C35: requests that agree on question, errorType and errorMessage get
\* the same cache key whatever their filePath, and a sendRequest entered
\* while the cache holds a fresh entry made for such a request returns
\* that entry at once.
C35_KeyIgnoresFile ==
  [][ /\ \A r1, r2 \in AllRequests :
           Agree(r1, r2) => generateCacheKey(r1) = generateCacheKey(r2)
      /\ \A c \in CallIds, r1 \in AllRequests :
           ( /\ calls[c].pc = "idle"
             /\ calls'[c].pc # "idle"
             /\ Agree(r1, calls'[c].request)
             /\ CacheFresh(responseCache, generateCacheKey(r1)) )
           => /\ calls'[c].pc = "done"
              /\ calls'[c].via = "cache"
              /\ calls'[c].response = responseCache[generateCacheKey(r1)]
              /\ calls'[c].netCalls = 0
    ]_vars

\* The second sendRequest asked the first one's question about the other
\* file and was served the first one's answer from the cache.
C35_Witness ==
  /\ calls[1].pc = "done" /\ calls[1].via # "cache"
  /\ calls[2].pc = "done" /\ calls[2].via = "cache"
  /\ Agree(calls[1].request, calls[2].request)
  /\ calls[1].request.filePath # calls[2].request.filePath
  /\ calls[2].response = calls[1].response
  /\ calls[2].response.success


-----------------------------------------------------------------------------
(* The provider field of a response *)

\* C36: every response sendRequest obtains from an adapter call names, in
\* its provider field, the provider type under which the Manager selected
\* the adapter, for every member of AIProviderType.
C36_ProviderIsSelectedType ==
  [][ \A c \in CallIds :
        ( /\ calls[c].pc = "wait"
          /\ calls'[c].pc = "done"
          /\ calls'[c].kind = "response" )
        => calls'[c].response.provider = calls[c].target
    ]_vars


-----------------------------------------------------------------------------
(* The enableRetry flag *)

\* C37: with enableRetry = false a sendRequest makes at most one attempt
\* on the active provider and sleeps no backoff delay, whatever maxRetries.
C37_NoRetryWhenDisabled ==
  ~ config.enableRetry =>
    \A c \in CallIds :
      /\ calls[c].attempt <= 1
      /\ calls[c].sleeps = <<>>


-----------------------------------------------------------------------------
(* switchProvider and the response cache *)

\* C38: a switchProvider call, resolved or rejected, leaves the response
\* cache as it is; a sendRequest entered while the cache holds a fresh
\* entry for its key that another provider than the active one made
\* returns that entry and calls no adapter.
C38_SwitchKeepsCache ==
  [][ /\ switched'.n # switched.n => responseCache' = responseCache
      /\ \A c \in CallIds :
           ( /\ calls[c].pc = "idle"
             /\ calls'[c].pc # "idle"
             /\ CacheFresh(responseCache, calls'[c].cacheKey)
             /\ responseCache[calls'[c].cacheKey].provider # activeProvider )
           => /\ calls'[c].pc = "done"
              /\ calls'[c].kind = "response"
              /\ calls'[c].via = "cache"
              /\ calls'[c].response = responseCache[calls'[c].cacheKey]
              /\ calls'[c].netCalls = 0
              /\ calls'[c].trace = <<>>
    ]_vars

\* Gemini answered the first sendRequest, the consumer switched to
\* another provider, and the second sendRequest got Gemini's answer from
\* the cache.
C38_Witness ==
  /\ switched.n = 1 /\ switched.result = "resolved"
  /\ switched.before = "gemini" /\ activeProvider = switched.target
  /\ activeProvider # "gemini"
  /\ calls[1].pc = "done" /\ calls[1].via = "retry"
  /\ calls[2].pc = "done" /\ calls[2].via = "cache"
  /\ calls[2].response.provider = "gemini"
  /\ calls[2].response.success
  /\ calls[2].netCalls = 0
  /\ responseCache # <<>>


-----------------------------------------------------------------------------
(* Credentials *)

\* C39: on a credential-based adapter a setCredentials call with no key,
\* or with a key that fails validateApiKeyFormat, rejects and leaves the
\* secret store and the adapter's in-memory key as they were.
C39_BadKeyChangesNothing ==
  [][ ( /\ adapter'.cred.op = "setCredentials"
        /\ \/ adapter'.cred.apiKey = NoKey
           \/ ~ validateApiKeyFormat(adapter.type, adapter'.cred.apiKey) )
      => /\ adapter'.cred.rejected
         /\ secretStore' = secretStore
         /\ adapter'.key = adapter.key
    ]_vars

\* A key was stored and loaded; the latest call was a setCredentials with
\* a non-empty key of the wrong format, and it rejected.
C39_Witness ==
  /\ adapter.cred.op = "setCredentials"
  /\ adapter.cred.rejected
  /\ adapter.cred.apiKey \notin {NoKey, << Blank >>}
  /\ secretStore[adapter.type] # NoKey
  /\ adapter.key = secretStore[adapter.type]

\* C40: after a setCredentials that succeeded the adapter's in-memory key
\* equals the key the credential store returns for the provider, for
\* every accepted key; after clearCredentials both are absent and
\* getCapabilities().isAvailable is false.
C40_KeyEqualsStored ==
  /\ (adapter.cred.op = "setCredentials" /\ ~ adapter.cred.rejected)
       => adapter.key = secretStore[adapter.type]
  /\ adapter.cred.op = "clearCredentials"
       => /\ adapter.key = NoKey
          /\ secretStore[adapter.type] = NoKey
          /\ ~ CapabilityAvailable(adapter)

====
